---------------------------- MODULE Spec2Model ----------------------------
(***************************************************************************)
(* Node-side publish path and subscription routing of the transport        *)
(* library (src/src/Node.cc): Node, Node::Publisher, PublisherPrivate.      *)
(* The collaborators whose code is not part of the sources (TopicUtils,     *)
(* HandlerStorage, Discovery, Node::Subscribe) are modelled from their      *)
(* contract in the specification.                                          *)
(*                                                                         *)
(* Strings are sequences of one-character strings, so that the name        *)
(* conversions (qualify, strip) are computed as the code computes them.    *)
(***************************************************************************)
EXTENDS Integers, Sequences, FiniteSets, TLC

(***************************************************************************)
(* Bounds of the model.                                                    *)
(***************************************************************************)
\* PublisherPrivate objects that can be created in one run.
MaxPrivs == 2
\* Publisher handle copies that share one PublisherPrivate.
MaxRefs == 2
\* Subscription handlers that can be registered in one run.
MaxHandlers == 2
\* Publish calls that reach the dispatch in one run, when only the callers
\* are followed.
MaxPublishes == 2
\* Publish calls that reach the dispatch in one run, when the workers and the
\* subscribers are followed too.
MaxDispatch == 1
\* Publish calls that pass the throttle gate of one publisher in one run.
MaxGate == 3
\* Ticks of the steady clock in one second: the resolution at which the
\* model reads the clock (the code counts 1e9 nanoseconds).
TicksPerSec == 4
\* The last reading of the steady clock in one run.
MaxTime == 6
\* Calls of waitForShutdown one thread makes in one run.
MaxWaits == 2
\* Signals delivered to the process in one run.
MaxSignals == 2

(***************************************************************************)
(* Strings.                                                                *)
(***************************************************************************)
Range(s) == {s[i] : i \in 1..Len(s)}

\* std::string::find_last_of(c): the 0-based index of the last c, and npos
\* otherwise; the callers add 1, which wraps npos to 0, so npos is -1 here.
FindLastOf(s, c) ==
  LET idx == {i \in 1..Len(s) : s[i] = c}
  IN  IF idx = {} THEN -1 ELSE (CHOOSE i \in idx : \A j \in idx : j <= i) - 1

\* topic.erase(0, topic.find_last_of("@") + 1)
StripPartition(s) == SubSeq(s, FindLastOf(s, "@") + 2, Len(s))

\* The generic message type sentinel (kGenericMessageType).
kGenericMessageType == "google.protobuf.Message"

(***************************************************************************)
(* TopicUtils (contract): validation and fully qualified names.            *)
(***************************************************************************)
IsValidTopic(t) == t # <<>> /\ "@" \notin Range(t) /\ t # <<"/">>

\* "@" + partition + "@" + name, the partition with a leading "/", the name
\* either the absolute topic or namespace + topic.
QualifiedName(partition, ns, topic) ==
  LET part == IF partition # <<>> /\ Head(partition) # "/"
              THEN <<"/">> \o partition ELSE partition
      nsn  == IF ns = <<>> THEN <<"/">>
              ELSE (IF Head(ns) = "/" THEN <<>> ELSE <<"/">>) \o ns
                   \o (IF ns[Len(ns)] = "/" THEN <<>> ELSE <<"/">>)
      name == IF Head(topic) = "/" THEN topic ELSE nsn \o topic
  IN  <<"@">> \o part \o <<"@">> \o name

\* TopicUtils::FullyQualifiedName: [ok, name].
FullyQualifiedName(partition, ns, topic) ==
  IF IsValidTopic(topic)
  THEN [ok |-> TRUE, name |-> QualifiedName(partition, ns, topic)]
  ELSE [ok |-> FALSE, name |-> <<>>]

(***************************************************************************)
(* The nodes of the process and what their users pass in.                  *)
(***************************************************************************)
Nodes == {"n1", "n2"}

\* NodeOptions of each node: both in partition "p", n2 in namespace "n".
Partition(n) == <<"p">>
NameSpace(n) == IF n = "n1" THEN <<>> ELSE <<"n">>

\* Topic arguments of the callers: relative, absolute, and an invalid one.
TopicArgs == {<<"a">>, <<"/", "a">>, <<>>}

\* Message type names.
MsgTypes == {"T", "U"}
HandlerTypes == MsgTypes \cup {kGenericMessageType}

\* AdvertiseMessageOptions::MsgsPerSec; 0 is "not throttled".
RateArgs == {0, 2, 3}

\* Process UUID and the transport's addresses (NodeShared).
pUuid == "proc"
myAddress == "tcp://data"
myControlAddress == "tcp://ctrl"

\* The fully qualified name of each topic argument in each node, computed
\* once.
FqTable ==
  [n \in Nodes |-> [a \in TopicArgs |->
     FullyQualifiedName(Partition(n), NameSpace(n), a)]]

\* Any string a caller hands to a node: the topic arguments and the stripped
\* names the views return.
NodeFq(n, arg) ==
  IF arg \in TopicArgs THEN FqTable[n][arg]
  ELSE FullyQualifiedName(Partition(n), NameSpace(n), arg)

FqTopics ==
  {FqTable[n][a].name : n \in Nodes, a \in {x \in TopicArgs : IsValidTopic(x)}}

StrippedTopics == {StripPartition(t) : t \in FqTopics}

PrivIds == 1..MaxPrivs
HandlerIds == 1..MaxHandlers

VARIABLES
  proc,               \* "running", or "aborted" once an assert failed
  ndebug,             \* the build: TRUE when assert() is compiled out
  nodeState,          \* node -> "alive" | "destroyed"
  topicsSubscribed,   \* NodePrivate::topicsSubscribed, per node
  localSubscriptions, \* NodeShared::localSubscriptions: handler entries
  filters,            \* topics with a ZMQ_SUBSCRIBE filter on the subscriber socket
  msgInfo,            \* msgDiscovery's table of this process's publishers
  privs,              \* the PublisherPrivate objects
  unadvertised,       \* per PublisherPrivate: Unadvertise calls of its destructor
  last,               \* what the last operation did and returned
  now,                \* std::chrono::steady_clock::now(), in ticks
  lastCbTimestamp,    \* PublisherPrivate::lastCbTimestamp, per object
  pubMutex,           \* PublisherPrivate::mutex: the thread holding it
  thr,                \* the caller threads: where each is inside Publish
  gateLog,            \* per PublisherPrivate: the clock readings that passed
  items,              \* the work items and detached workers Publish started
  remoteSubscribers,  \* NodeShared::remoteSubscribers: {<<topic, type>>}
  g_shutdown,         \* the shutdown flag
  g_shutdown_mutex,   \* the thread that holds the shutdown mutex, or "none"
  installed,          \* signal_handler is installed for SIGINT and SIGTERM
  wfs,                \* per thread: its place in waitForShutdown, and in a
                      \* signal_handler running on top of it
  sigLog,             \* the signals delivered so far
  srvsAdvertised,     \* NodePrivate::srvsAdvertised, per node
  repliers,           \* NodeShared::repliers: replier entries
  srvInfo,            \* srvDiscovery's table of this process's services
  ctx                 \* per thread: "out", or "waiting" for or "held" the
                      \* recursive mutex of the shared context

vars == <<proc, ndebug, nodeState, topicsSubscribed, localSubscriptions,
          filters, msgInfo, privs, unadvertised, last, now, lastCbTimestamp,
          pubMutex, thr, gateLog, items, remoteSubscribers, g_shutdown,
          g_shutdown_mutex, installed, wfs, sigLog, srvsAdvertised,
          repliers, srvInfo, ctx>>

\* What the publish path adds to the state of the node life cycle.
pubVars == <<now, lastCbTimestamp, pubMutex, thr, gateLog, items,
             remoteSubscribers>>

\* The state of the shutdown latch.
sigVars == <<g_shutdown, g_shutdown_mutex, installed, wfs, sigLog>>

\* The services of the nodes.
srvVars == <<srvsAdvertised, repliers, srvInfo>>

\* The state of the node life cycle.
nodeVars == <<ndebug, nodeState, topicsSubscribed, localSubscriptions,
              filters, msgInfo, privs, unadvertised, last, srvsAdvertised,
              repliers, srvInfo>>

Threads == {"t1", "t2"}

\* A caller thread: where it is in Publish (pc), the call's arguments, the
\* clock reading and elapsed time of UpdateThrottling, and of the last call
\* that returned: the return value, the place it returned from (why), the
\* value its callback got synchronously (cb), the work item it started, and
\* the caller's own message object of a dispatched call (msg: its content,
\* "moved" once handed over as a unique_ptr, "changed" once the caller has
\* written to it or destroyed it).
Idle == [pc |-> "idle", priv |-> 0, type |-> "", form |-> "", now |-> 0,
         elapsed |-> 0, ret |-> "none", why |-> "none", cb |-> "none",
         item |-> 0, msg |-> "none", res |-> "none", reason |-> "none"]


(***************************************************************************)
(* HandlerStorage (contract): entries [topic, nUuid, hUuid, type].         *)
(***************************************************************************)
HandlersOf(subs, topic) == {h \in subs : h.topic = topic}

HasHandlersForTopic(subs, topic) == HandlersOf(subs, topic) # {}

\* A variant that removes the handlers of every node for the topic.
RemoveHandlersForTopic(subs, topic, n) == {h \in subs : h.topic # topic}

RemoveHandlersForNode(subs, topic, n) ==
  {h \in subs : ~(h.topic = topic /\ h.nUuid = n)}

AddHandler(subs, topic, n, hid, type) ==
  subs \cup {[topic |-> topic, nUuid |-> n, hUuid |-> hid, type |-> type]}

\* FirstHandler(topic, type): is there a handler of that type or generic.
FirstHandler(subs, topic, type) ==
  \E h \in HandlersOf(subs, topic) :
    h.type = type \/ h.type = kGenericMessageType

(***************************************************************************)
(* Discovery (contract): the table of publishers.                          *)
(***************************************************************************)
DiscAdvertise(info, pub) == info \cup {pub}

DiscUnadvertise(info, topic, n) ==
  {p \in info : ~(p.topic = topic /\ p.nUuid = n)}

PublishersByNode(info, pu, n) == {p \in info : p.pUuid = pu /\ p.nUuid = n}

Publishers(info, topic) == {p \in info : p.topic = topic}

(***************************************************************************)
(* MessagePublisher descriptors and PublisherPrivate objects.              *)
(***************************************************************************)
MessagePublisher(topic, n, type, rate) ==
  [topic |-> topic, addr |-> myAddress, ctrl |-> myControlAddress,
   pUuid |-> pUuid, nUuid |-> n, type |-> type, msgsPerSec |-> rate]

\* The default-constructed MessagePublisher of Publisher().
EmptyPublisher ==
  [topic |-> <<>>, addr |-> "", ctrl |-> "", pUuid |-> "", nUuid |-> "",
   type |-> "", msgsPerSec |-> 0]

\* copied: whether a copy of the handle was ever made (history).
NoPriv == [state |-> "free", publisher |-> EmptyPublisher, refs |-> 0,
           topicWithoutPartition |-> <<>>, copied |-> FALSE]

\* Node::Publisher::Valid
Valid(priv) == priv.publisher.topic # <<>>

\* Node::Publisher::Publisher(const MessagePublisher &): the private data of
\* a new handle.
NewPublisher(pub) ==
  [state |-> "live", publisher |-> pub, refs |-> 1,
   topicWithoutPartition |->
     IF pub.topic # <<>> THEN StripPartition(pub.topic) ELSE <<>>,
   copied |-> FALSE]

LivePrivs == {i \in PrivIds : privs[i].state = "live"}
FreePrivs == {i \in PrivIds : privs[i].state = "free"}

\* The node has a live Publisher for the fully qualified topic.
HasLivePublisher(n, fq) ==
  \E i \in LivePrivs :
    privs[i].publisher.topic = fq /\ privs[i].publisher.nUuid = n

(***************************************************************************)
(* Node views.                                                             *)
(***************************************************************************)
\* Node::AdvertisedTopics: discovery's publishers of this node, stripped.
AdvertisedTopics(info, n) ==
  {StripPartition(p.topic) : p \in PublishersByNode(info, pUuid, n)}

\* Node::SubscribedTopics
SubscribedTopics(tsub, n) == {StripPartition(t) : t \in tsub[n]}

NoOp == [op |-> "none", node |-> "", fq |-> <<>>, ret |-> FALSE,
         dup |-> FALSE, nodeRejected |-> FALSE, announced |-> FALSE,
         hadLive |-> FALSE, hadSubs |-> FALSE, ctrl |-> <<>>,
         priv |-> 0, valid |-> FALSE, localMatch |-> FALSE,
         remoteMatch |-> FALSE, lookupFailed |-> FALSE,
         unadvFailed |-> FALSE]

(***************************************************************************)
(* Node::Advertise                                                         *)
(***************************************************************************)
\* The node-level duplicate check: std::find of the fully qualified name in
\* the list AdvertisedTopics() returns.
AlreadyAdvertised(info, n, fq) == fq \in AdvertisedTopics(info, n)

\* A variant that hands out the publisher's handle also after a failure.
AdvertiseReturnsPublisher(good, pub) == NewPublisher(pub)

\* What Advertise returns: Publisher(publisher), or Publisher() on failure.
AdvertiseReturn(good, pub) ==
  IF good THEN NewPublisher(pub) ELSE NewPublisher(EmptyPublisher)

Advertise(id, n, arg, type, rate, discOk) ==
  /\ proc = "running"
  /\ nodeState[n] = "alive"
  /\ id \in FreePrivs
  /\ \A j \in FreePrivs : id <= j
  /\ LET r   == NodeFq(n, arg)
         rej == r.ok /\ AlreadyAdvertised(msgInfo, n, r.name)
         ann == r.ok /\ ~rej
         pub == MessagePublisher(r.name, n, type, rate)
         good == ann /\ discOk
     IN  /\ msgInfo' = IF good THEN DiscAdvertise(msgInfo, pub) ELSE msgInfo
         /\ privs' = [privs EXCEPT ![id] = AdvertiseReturn(good, pub)]
         /\ last' = [NoOp EXCEPT !.op = "Advertise", !.node = n, !.ret = good,
                       !.dup = r.ok /\ HasLivePublisher(n, r.name),
                       !.nodeRejected = rej, !.announced = ann]
  /\ UNCHANGED <<proc, ndebug, nodeState, topicsSubscribed,
                 localSubscriptions, filters, unadvertised>>
  /\ UNCHANGED pubVars
  /\ UNCHANGED sigVars
  /\ UNCHANGED srvVars
  /\ UNCHANGED ctx

(***************************************************************************)
(* Publisher handles: copy and drop.                                       *)
(***************************************************************************)
\* Publisher(): a handle whose private data holds an empty MessagePublisher.
DefaultConstruct(id) ==
  /\ proc = "running"
  /\ id \in FreePrivs
  /\ \A j \in FreePrivs : id <= j
  /\ privs' = [privs EXCEPT ![id] = NewPublisher(EmptyPublisher)]
  /\ last' = [NoOp EXCEPT !.op = "Publisher"]
  /\ UNCHANGED <<proc, ndebug, nodeState, topicsSubscribed,
                 localSubscriptions, filters, msgInfo, unadvertised>>
  /\ UNCHANGED pubVars
  /\ UNCHANGED sigVars
  /\ UNCHANGED srvVars
  /\ UNCHANGED ctx

\* Copy of a Publisher: the copies share dataPtr.
CopyHandle(id) ==
  /\ proc = "running"
  /\ privs[id].state = "live"
  /\ privs[id].refs < MaxRefs
  /\ privs' = [privs EXCEPT ![id].refs = @ + 1, ![id].copied = TRUE]
  /\ last' = [NoOp EXCEPT !.op = "Copy"]
  /\ UNCHANGED <<proc, ndebug, nodeState, topicsSubscribed,
                 localSubscriptions, filters, msgInfo, unadvertised>>
  /\ UNCHANGED pubVars
  /\ UNCHANGED sigVars
  /\ UNCHANGED srvVars
  /\ UNCHANGED ctx

\* A variant in which every copy's destructor unadvertises.
RunsDestructorEveryCopy(priv) == TRUE

\* ~Publisher of one copy runs ~PublisherPrivate when this was the last one.
RunsDestructor(priv) == priv.refs = 1

\* ~Publisher, and ~PublisherPrivate with the last copy: Unadvertise(topic,
\* nUuid) on the message discovery.
DropHandle(id) ==
  /\ proc = "running"
  /\ privs[id].state = "live"
  /\ LET p == privs[id]
     IN  IF RunsDestructor(p)
         THEN /\ privs' = [privs EXCEPT ![id].refs = p.refs - 1,
                                       ![id].state = "gone"]
              /\ msgInfo' = DiscUnadvertise(msgInfo, p.publisher.topic,
                                            p.publisher.nUuid)
              /\ unadvertised' = [unadvertised EXCEPT ![id] =
                   Append(@, <<p.publisher.topic, p.publisher.nUuid>>)]
         ELSE /\ privs' = [privs EXCEPT ![id].refs = p.refs - 1]
              /\ UNCHANGED <<msgInfo, unadvertised>>
  /\ last' = [NoOp EXCEPT !.op = "Drop"]
  /\ UNCHANGED <<proc, ndebug, nodeState, topicsSubscribed,
                 localSubscriptions, filters>>
  /\ UNCHANGED pubVars
  /\ UNCHANGED sigVars
  /\ UNCHANGED srvVars
  /\ UNCHANGED ctx

(***************************************************************************)
(* Node::Subscribe (contract) and Node::SubscribeHelper.                   *)
(***************************************************************************)
\* SubscribeHelper: the topic joins the node's set, then discovery is asked.
SubscribeHelper(tsub, n, fq) == [tsub EXCEPT ![n] = @ \cup {fq}]

Subscribe(n, arg, type, hid, discOk) ==
  /\ proc = "running"
  /\ nodeState[n] = "alive"
  /\ \A h \in localSubscriptions : h.hUuid # hid
  /\ LET r == NodeFq(n, arg)
     IN  IF r.ok
         THEN /\ localSubscriptions' =
                   AddHandler(localSubscriptions, r.name, n, hid, type)
              /\ filters' = filters \cup {r.name}
              /\ topicsSubscribed' = SubscribeHelper(topicsSubscribed, n, r.name)
         ELSE UNCHANGED <<localSubscriptions, filters, topicsSubscribed>>
  /\ last' = [NoOp EXCEPT !.op = "Subscribe", !.node = n,
                !.fq = NodeFq(n, arg).name, !.ret = NodeFq(n, arg).ok]
  /\ UNCHANGED <<proc, ndebug, nodeState, msgInfo, privs, unadvertised>>
  /\ UNCHANGED pubVars
  /\ UNCHANGED sigVars
  /\ UNCHANGED srvVars
  /\ UNCHANGED ctx

(***************************************************************************)
(* Node::Unsubscribe, as a function of the registries it changes:         *)
(* R = [subs, tsub, filters, ctrl, ret].                                   *)
(***************************************************************************)
RECURSIVE SetToSeq(_)
SetToSeq(S) ==
  IF S = {} THEN <<>>
  ELSE LET x == CHOOSE y \in S : TRUE IN <<x>> \o SetToSeq(S \ {x})

\* A variant whose second frame is the control address of the sender.
EndConnectionFramesCtrlAddress(fq, n) ==
  <<fq, myControlAddress, n, kGenericMessageType, "EndConnection">>

\* The five frames of the end-of-subscription control message.
EndConnectionFrames(fq, n) ==
  <<fq, myAddress, n, kGenericMessageType, "EndConnection">>

\* A variant that drops the filter without looking at the other nodes.
RemoveFilterAlways(subs, flt, fq) == flt \ {fq}

\* The subscriber socket's ZMQ_UNSUBSCRIBE, when no handler is left.
RemoveFilterIfLast(subs, flt, fq) ==
  IF ~HasHandlersForTopic(subs, fq) THEN flt \ {fq} ELSE flt

\* A variant that keeps the topic when the Publishers lookup fails.
EraseSubscribedIfFound(tsub, n, fq, pubsOk) ==
  IF pubsOk THEN [tsub EXCEPT ![n] = @ \ {fq}] ELSE tsub

\* this->dataPtr->topicsSubscribed.erase(fullyQualifiedTopic)
EraseSubscribed(tsub, n, fq, pubsOk) == [tsub EXCEPT ![n] = @ \ {fq}]

UnsubscribeOn(R, info, n, arg, pubsOk) ==
  LET r == NodeFq(n, arg)
  IN  IF ~r.ok THEN [R EXCEPT !.ret = FALSE]
      ELSE
        LET subs1 == RemoveHandlersForNode(R.subs, r.name, n)
            tsub1 == EraseSubscribed(R.tsub, n, r.name, pubsOk)
            flt1  == RemoveFilterIfLast(subs1, R.filters, r.name)
            msgs  == [i \in 1..Cardinality(Publishers(info, r.name)) |->
                        [to |-> SetToSeq(Publishers(info, r.name))[i].ctrl,
                         frames |-> EndConnectionFrames(r.name, n)]]
        IN  [subs |-> subs1, tsub |-> tsub1, filters |-> flt1,
             ctrl |-> IF pubsOk THEN R.ctrl \o msgs ELSE R.ctrl,
             ret |-> pubsOk]

Registries ==
  [subs |-> localSubscriptions, tsub |-> topicsSubscribed,
   filters |-> filters, ctrl |-> <<>>, ret |-> TRUE]

Unsubscribe(n, arg, pubsOk) ==
  /\ proc = "running"
  /\ nodeState[n] = "alive"
  /\ LET R == UnsubscribeOn(Registries, msgInfo, n, arg, pubsOk)
         r == NodeFq(n, arg)
     IN  /\ localSubscriptions' = R.subs
         /\ topicsSubscribed' = R.tsub
         /\ filters' = R.filters
         /\ last' = [NoOp EXCEPT !.op = "Unsubscribe", !.node = n,
                       !.fq = r.name, !.ret = R.ret, !.ctrl = R.ctrl,
                       !.valid = r.ok,
                       !.hadSubs = \E h \in localSubscriptions :
                                      h.nUuid = n /\ h.topic = r.name]
  /\ UNCHANGED <<proc, ndebug, nodeState, msgInfo, privs, unadvertised>>
  /\ UNCHANGED pubVars
  /\ UNCHANGED sigVars
  /\ UNCHANGED srvVars
  /\ UNCHANGED ctx

(***************************************************************************)
(* Services: Node::Advertise of a service (contract), AdvertisedServices   *)
(* and UnadvertiseSrv, as a function of S = [srvs, reps, info, ret].       *)
(***************************************************************************)
\* Node::AdvertisedServices
AdvertisedServices(srvs, n) == {StripPartition(x) : x \in srvs[n]}

\* A service is advertised: it joins the node's set, its replier joins the
\* replier table, and service discovery is told.
AdvertiseSrv(n, arg, rid, discOk) ==
  /\ proc = "running"
  /\ nodeState[n] = "alive"
  /\ \A h \in repliers : h.hUuid # rid
  /\ LET r == NodeFq(n, arg)
     IN  IF r.ok
         THEN /\ srvsAdvertised' = [srvsAdvertised EXCEPT ![n] = @ \cup {r.name}]
              /\ repliers' = AddHandler(repliers, r.name, n, rid, "srv")
              /\ srvInfo' = IF discOk
                            THEN srvInfo \cup {[topic |-> r.name, nUuid |-> n]}
                            ELSE srvInfo
         ELSE UNCHANGED srvVars
  /\ last' = [NoOp EXCEPT !.op = "AdvertiseSrv", !.node = n,
                !.fq = NodeFq(n, arg).name, !.ret = NodeFq(n, arg).ok]
  /\ UNCHANGED <<proc, ndebug, nodeState, topicsSubscribed,
                 localSubscriptions, filters, msgInfo, privs, unadvertised>>
  /\ UNCHANGED pubVars
  /\ UNCHANGED sigVars
  /\ UNCHANGED ctx

\* A variant that keeps the service when discovery's Unadvertise fails.
EraseServiceIfUnadvertised(srvs, n, fq, discOk) ==
  IF discOk THEN [srvs EXCEPT ![n] = @ \ {fq}] ELSE srvs

\* this->dataPtr->srvsAdvertised.erase(fullyQualifiedTopic)
EraseService(srvs, n, fq, discOk) == [srvs EXCEPT ![n] = @ \ {fq}]

UnadvertiseSrvOn(S, n, arg, discOk) ==
  LET r == NodeFq(n, arg)
  IN  IF ~r.ok THEN [S EXCEPT !.ret = FALSE]
      ELSE [srvs |-> EraseService(S.srvs, n, r.name, discOk),
            reps |-> RemoveHandlersForNode(S.reps, r.name, n),
            info |-> IF discOk THEN DiscUnadvertise(S.info, r.name, n)
                     ELSE S.info,
            ret |-> discOk]

SrvRegistries ==
  [srvs |-> srvsAdvertised, reps |-> repliers, info |-> srvInfo, ret |-> TRUE]

UnadvertiseSrv(n, arg, discOk) ==
  /\ proc = "running"
  /\ nodeState[n] = "alive"
  /\ LET S == UnadvertiseSrvOn(SrvRegistries, n, arg, discOk)
         r == NodeFq(n, arg)
     IN  /\ srvsAdvertised' = S.srvs
         /\ repliers' = S.reps
         /\ srvInfo' = S.info
         /\ last' = [NoOp EXCEPT !.op = "UnadvertiseSrv", !.node = n,
                       !.fq = r.name, !.ret = S.ret, !.valid = r.ok,
                       !.hadSubs = r.ok /\ r.name \in srvsAdvertised[n]]
  /\ UNCHANGED <<proc, ndebug, nodeState, topicsSubscribed,
                 localSubscriptions, filters, msgInfo, privs, unadvertised>>
  /\ UNCHANGED pubVars
  /\ UNCHANGED sigVars
  /\ UNCHANGED ctx

(***************************************************************************)
(* Node::~Node                                                             *)
(***************************************************************************)
\* A variant that hands the fully qualified names to Unsubscribe.
DestructorTopicsQualified(tsub, n) == tsub[n]

\* The topics the destructor unsubscribes from: SubscribedTopics().
DestructorTopics(tsub, n) == SubscribedTopics(tsub, n)

\* for (topic : subsTopics) this->Unsubscribe(topic); the Publishers lookup
\* fails for the topics of failed.
RECURSIVE UnsubscribeAll(_, _, _, _, _)
UnsubscribeAll(R, info, n, topics, failed) ==
  IF topics = {} THEN R
  ELSE LET t == CHOOSE x \in topics : TRUE
       IN  UnsubscribeAll(UnsubscribeOn(R, info, n, t, t \notin failed),
                          info, n, topics \ {t}, failed)

\* A variant that hands the fully qualified names to UnadvertiseSrv.
DestructorServicesQualified(srvs, n) == srvs[n]

\* The services the destructor unadvertises: AdvertisedServices().
DestructorServices(srvs, n) == AdvertisedServices(srvs, n)

\* for (service : advServices) this->UnadvertiseSrv(service); discovery's
\* Unadvertise fails for the services of failed.
RECURSIVE UnadvertiseAll(_, _, _, _)
UnadvertiseAll(S, n, services, failed) ==
  IF services = {} THEN S
  ELSE LET x == CHOOSE y \in services : TRUE
       IN  UnadvertiseAll(UnadvertiseSrvOn(S, n, x, x \notin failed),
                          n, services \ {x}, failed)

DestroyNode(n, failed, srvFailed) ==
  /\ proc = "running"
  /\ nodeState[n] = "alive"
  /\ LET topics == DestructorTopics(topicsSubscribed, n)
         R == UnsubscribeAll(Registries, msgInfo, n, topics, failed)
         \* assert(this->SubscribedTopics().empty());
         \* assert(this->AdvertisedTopics().empty());
         asserts == /\ SubscribedTopics(R.tsub, n) = {}
                    /\ AdvertisedTopics(msgInfo, n) = {}
         services == DestructorServices(srvsAdvertised, n)
         S == UnadvertiseAll(SrvRegistries, n, services, srvFailed)
         \* assert(this->AdvertisedServices().empty());
         assertSrv == AdvertisedServices(S.srvs, n) = {}
     IN  /\ failed \subseteq topics
         /\ srvFailed \subseteq services
         /\ localSubscriptions' = R.subs
         /\ topicsSubscribed' = R.tsub
         /\ filters' = R.filters
         /\ IF asserts \/ ndebug
            THEN /\ srvsAdvertised' = S.srvs
                 /\ repliers' = S.reps
                 /\ srvInfo' = S.info
            ELSE UNCHANGED srvVars
         /\ IF (asserts /\ assertSrv) \/ ndebug
            THEN /\ nodeState' = [nodeState EXCEPT ![n] = "destroyed"]
                 /\ proc' = proc
            ELSE /\ proc' = "aborted"
                 /\ nodeState' = nodeState
         /\ last' = [NoOp EXCEPT !.op = "DestroyNode", !.node = n,
                       !.ret = asserts /\ assertSrv, !.ctrl = R.ctrl,
                       !.hadSubs = \E h \in localSubscriptions : h.nUuid = n,
                       !.hadLive = \E i \in LivePrivs :
                                     privs[i].publisher.nUuid = n,
                       !.valid = srvsAdvertised[n] # {},
                       !.lookupFailed = failed # {},
                       !.unadvFailed = srvFailed # {}]
  /\ UNCHANGED <<ndebug, msgInfo, privs, unadvertised>>
  /\ UNCHANGED pubVars
  /\ UNCHANGED sigVars
  /\ UNCHANGED ctx

(***************************************************************************)
(* The node life cycle: advertise, subscribe, handles, destruction.        *)
(***************************************************************************)
\* No node has advertised a service.
InitSrv ==
  /\ srvsAdvertised = [n \in Nodes |-> {}]
  /\ repliers = {}
  /\ srvInfo = {}

\* static bool g_shutdown = false; no thread waits, no signal was sent.
InitShutdown ==
  /\ g_shutdown = FALSE
  /\ g_shutdown_mutex = "none"
  /\ installed = FALSE
  /\ wfs = [t \in Threads |->
             [pc |-> "idle", hpc |-> "none", late |-> FALSE, calls |-> 0]]
  /\ sigLog = <<>>

\* Nothing has happened yet, in one of the given builds.
InitBuild(builds) ==
  /\ InitShutdown
  /\ InitSrv
  /\ ctx = [t \in Threads |-> "out"]
  /\ proc = "running"
  /\ ndebug \in builds
  /\ nodeState = [n \in Nodes |-> "alive"]
  /\ topicsSubscribed = [n \in Nodes |-> {}]
  /\ localSubscriptions = {}
  /\ filters = {}
  /\ msgInfo = {}
  /\ privs = [i \in PrivIds |-> NoPriv]
  /\ unadvertised = [i \in PrivIds |-> <<>>]
  /\ last = NoOp
  /\ now = 0
  /\ lastCbTimestamp = [i \in PrivIds |-> 0]
  /\ pubMutex = [i \in PrivIds |-> "none"]
  /\ thr = [t \in Threads |-> Idle]
  /\ gateLog = [i \in PrivIds |-> <<>>]
  /\ items = <<>>
  /\ remoteSubscribers = {}

Init == InitBuild(BOOLEAN)

\* The life cycle of the handles: the nodes advertise a relative name (a
\* different topic per namespace) or an invalid one.
Next ==
  \/ \E id \in PrivIds, n \in Nodes, arg \in {<<"a">>, <<>>}, type \in MsgTypes,
        discOk \in BOOLEAN : Advertise(id, n, arg, type, 0, discOk)
  \/ \E id \in PrivIds : CopyHandle(id)
  \/ \E id \in PrivIds : DropHandle(id)
  \/ \E n \in Nodes : DestroyNode(n, {}, {})

Spec == Init /\ [][Next]_vars

(***************************************************************************)
(* Subscriptions of the nodes, next to one publisher.                      *)
(***************************************************************************)
NextSub ==
  \/ \E n \in Nodes, arg \in TopicArgs, hid \in HandlerIds,
        discOk \in BOOLEAN : Subscribe(n, arg, "T", hid, discOk)
  \/ \E n \in Nodes, arg \in TopicArgs, pubsOk \in BOOLEAN :
          Unsubscribe(n, arg, pubsOk)
  \/ \E n \in Nodes :
        \E failed \in SUBSET SubscribedTopics(topicsSubscribed, n) :
          DestroyNode(n, failed, {})
  \/ \E n \in Nodes, discOk \in BOOLEAN :
          Advertise(1, n, <<"/", "a">>, "T", 0, discOk)
  \/ DropHandle(1)

SpecSub == Init /\ [][NextSub]_vars

(***************************************************************************)
(* Node::Publisher::Publish, both forms, step by step.                     *)
(***************************************************************************)
Forms == {"forget", "callback"}
Contents == {"m"}

\* A variant of Precheck without the comparison of the type names.
PrecheckValidOnly(priv, type) == Valid(priv)

\* Node::Publisher::Precheck
Precheck(priv, type) == Valid(priv) /\ priv.publisher.type = type

\* AdvertiseMessageOptions::Throttled (contract: msgsPerSec > 0).
Throttled(priv) == priv.publisher.msgsPerSec > 0

\* elapsed < periodNs, with periodNs = 1e9 / MsgsPerSec().
BelowPeriod(elapsed, rate) == elapsed * rate < TicksPerSec

\* A variant without the std::lock_guard on the publisher's mutex.
CanLockAlways(holder) == TRUE

\* std::lock_guard<std::mutex> lk(this->dataPtr->mutex)
CanLock(holder) == holder = "none"

\* What a PrePublish that returns false leaves in the thread: in the plain
\* form Publish returns _publishResult; in the callback form the thread is
\* about to call the callback with it.
\* A variant that returns early without the callback.
ReturnedWithoutCallback(t, res, why) ==
  [thr[t] EXCEPT !.pc = "idle", !.ret = res, !.why = why]

\* A variant that calls the callback from inside PrePublish, before the
\* locks of the returning step are released.
ReturnedCallingInside(t, res, why) ==
  [thr[t] EXCEPT !.pc = "idle", !.ret = res, !.why = why,
                 !.cb = IF thr[t].form = "callback" THEN res ELSE "none"]

Returned(t, res, why) ==
  IF thr[t].form = "callback"
  THEN [thr[t] EXCEPT !.pc = "earlycb", !.res = res, !.reason = why]
  ELSE [thr[t] EXCEPT !.pc = "idle", !.ret = res, !.why = why]

InPublish == {t \in Threads : thr[t].pc # "idle"}

\* Publish is entered: PrePublish's sanity check.
PublishBegin(t, id, type, form, max) ==
  /\ proc = "running"
  /\ thr[t].pc = "idle"
  /\ privs[id].state = "live"
  /\ Len(items) + Cardinality(InPublish) < max
  /\ Len(gateLog[id]) + Cardinality(InPublish) < MaxGate
  /\ LET call == [Idle EXCEPT !.priv = id, !.type = type, !.form = form]
     IN  thr' = [thr EXCEPT ![t] =
           IF Precheck(privs[id], type)
           THEN [call EXCEPT !.pc = "throttle"]
           ELSE IF form = "callback"
           THEN [call EXCEPT !.pc = "earlycb", !.res = "false",
                             !.reason = "precheck"]
           ELSE [call EXCEPT !.ret = "false", !.why = "precheck"]]
  /\ UNCHANGED <<proc, now, lastCbTimestamp, pubMutex, gateLog, items,
                 remoteSubscribers>>
  /\ UNCHANGED nodeVars
  /\ UNCHANGED sigVars
  /\ UNCHANGED ctx

\* The callback form after PrePublish returned false:
\* _cb(std::move(_msg), res); return res.
EarlyCallback(t) ==
  /\ proc = "running"
  /\ thr[t].pc = "earlycb"
  /\ thr' = [thr EXCEPT ![t].pc = "idle", ![t].ret = thr[t].res,
                        ![t].why = thr[t].reason, ![t].cb = thr[t].res]
  /\ UNCHANGED <<proc, now, lastCbTimestamp, pubMutex, gateLog, items,
                 remoteSubscribers>>
  /\ UNCHANGED nodeVars
  /\ UNCHANGED sigVars
  /\ UNCHANGED ctx

\* A variant that keeps the publisher's mutex into the subscriber lookup.
UnlockLater(mutexes, id) == mutexes

\* ~lock_guard at the return of UpdateThrottling.
Unlock(mutexes, id) == [mutexes EXCEPT ![id] = "none"]

\* UpdateThrottling: the lock on the publisher's mutex.
ThrottleLock(t) ==
  /\ proc = "running"
  /\ thr[t].pc = "throttle"
  /\ CanLock(pubMutex[thr[t].priv])
  /\ pubMutex' = [pubMutex EXCEPT ![thr[t].priv] = t]
  /\ thr' = [thr EXCEPT ![t].pc = "locked"]
  /\ UNCHANGED <<proc, now, lastCbTimestamp, gateLog, items,
                 remoteSubscribers>>
  /\ UNCHANGED nodeVars
  /\ UNCHANGED sigVars
  /\ UNCHANGED ctx

\* UpdateThrottling: not throttled, or the clock and the elapsed time read.
ThrottleRead(t) ==
  /\ proc = "running"
  /\ thr[t].pc = "locked"
  /\ LET id == thr[t].priv
     IN  IF ~Throttled(privs[id])
         THEN /\ thr' = [thr EXCEPT ![t].pc = "lookup"]
              /\ pubMutex' = Unlock(pubMutex, id)
         ELSE /\ thr' = [thr EXCEPT ![t].pc = "compare", ![t].now = now,
                           ![t].elapsed = now - lastCbTimestamp[id]]
              /\ pubMutex' = pubMutex
  /\ UNCHANGED <<proc, now, lastCbTimestamp, gateLog, items,
                 remoteSubscribers>>
  /\ UNCHANGED nodeVars
  /\ UNCHANGED sigVars
  /\ UNCHANGED ctx

\* A variant that stamps the handle on every call, dropped or not.
StampAlways(below, stamp, read) == read

\* A variant that never stamps the handle.
StampNever(below, stamp, read) == stamp

\* lastCbTimestamp after the comparison: return false leaves it, otherwise
\* this->dataPtr->lastCbTimestamp = now.
StampAfter(below, stamp, read) == IF below THEN stamp ELSE read

\* UpdateThrottling: the comparison with the period, and the update.
ThrottleUpdate(t) ==
  /\ proc = "running"
  /\ thr[t].pc = "compare"
  /\ LET id == thr[t].priv
         below == BelowPeriod(thr[t].elapsed, privs[id].publisher.msgsPerSec)
     IN  /\ lastCbTimestamp' = [lastCbTimestamp EXCEPT
                                  ![id] = StampAfter(below, @, thr[t].now)]
         /\ IF below
            THEN /\ thr' = [thr EXCEPT ![t] = Returned(t, "true", "throttle")]
                 /\ UNCHANGED gateLog
            ELSE /\ thr' = [thr EXCEPT ![t].pc = "lookup"]
                 /\ gateLog' = [gateLog EXCEPT ![id] = Append(@, thr[t].now)]
         /\ pubMutex' = Unlock(pubMutex, id)
  /\ UNCHANGED <<proc, now, items, remoteSubscribers>>
  /\ UNCHANGED nodeVars
  /\ UNCHANGED sigVars
  /\ UNCHANGED ctx

\* The iteration order of std::map<nUuid, std::map<hUuid, handler>>.
RECURSIVE OrderedHandlers(_)
OrderedHandlers(hs) ==
  IF hs = {} THEN <<>>
  ELSE LET Before(a, b) ==
             \/ (a.nUuid = "n1" /\ b.nUuid # "n1")
             \/ (a.nUuid = b.nUuid /\ a.hUuid <= b.hUuid)
           h == CHOOSE x \in hs : \A y \in hs : Before(x, y)
       IN  <<h>> \o OrderedHandlers(hs \ {h})

\* CheckSubscribers: whether the topic has handlers, and whether the remote
\* subscribers hold the topic with the type of the message.
HasLocalSubscribers(subs, topic) == HasHandlersForTopic(subs, topic)

\* A variant that asks for the topic with any type.
HasRemoteAnyType(rs, topic, type) == \E p \in rs : p[1] = topic

HasRemoteSubscribers(rs, topic, type) == <<topic, type>> \in rs

\* A variant that looks at the local handlers only.
HasConnectionsLocalOnly(priv, subs, rs) ==
  Valid(priv) /\ FirstHandler(subs, priv.publisher.topic, priv.publisher.type)

\* Node::Publisher::HasConnections
HasConnections(priv, subs, rs) ==
  /\ Valid(priv)
  /\ \/ FirstHandler(subs, priv.publisher.topic, priv.publisher.type)
     \/ HasRemoteSubscribers(rs, priv.publisher.topic, priv.publisher.type)

\* A call of HasConnections on a handle; the record keeps what the tables
\* held at the call.
HasConnectionsCall(id) ==
  /\ proc = "running"
  /\ privs[id].state = "live"
  /\ LET pub == privs[id].publisher
     IN  last' = [NoOp EXCEPT
           !.op = "HasConnections", !.priv = id,
           !.ret = HasConnections(privs[id], localSubscriptions,
                                  remoteSubscribers),
           !.valid = pub.topic # <<>>,
           !.hadSubs = \E h \in localSubscriptions : h.topic = pub.topic,
           !.localMatch = \E h \in localSubscriptions :
                             /\ h.topic = pub.topic
                             /\ h.type \in {pub.type, kGenericMessageType},
           !.remoteMatch = <<pub.topic, pub.type>> \in remoteSubscribers]
  /\ UNCHANGED <<proc, ndebug, nodeState, topicsSubscribed,
                 localSubscriptions, filters, msgInfo, privs, unadvertised>>
  /\ UNCHANGED pubVars
  /\ UNCHANGED sigVars
  /\ UNCHANGED srvVars
  /\ UNCHANGED ctx

\* A variant that serializes before it returns and reports the failure.
DispatchReturnSerialized(hasRemote, serializable) ==
  IF hasRemote /\ ~serializable THEN "false" ELSE "true"

\* return true: what Publish returns once the work is handed over.
DispatchReturn(hasRemote, serializable) == "true"

\* A variant that puts the new work ahead of the work already queued.
AddWorkFirst(queue, item) == <<item>> \o queue

\* WorkerPool::AddWork (contract: a FIFO queue of work).
AddWork(queue, item) == Append(queue, item)

\* CheckSubscribers under the shared mutex, then the copy of the message and
\* the work item (or the detached thread) with the captured handlers; the
\* item keeps the calling thread and which of its dispatched calls it is.
LookupAndDispatch(t, content, ser) ==
  /\ proc = "running"
  /\ thr[t].pc = "lookup"
  /\ LET id == thr[t].priv
         topic == privs[id].publisher.topic
         hasLocal == HasLocalSubscribers(localSubscriptions, topic)
         hasRemote == HasRemoteSubscribers(remoteSubscribers, topic, thr[t].type)
         item == [priv |-> id, type |-> thr[t].type, content |-> content,
                  msgCopy |-> content, serializable |-> ser, form |-> thr[t].form, hasLocal |-> hasLocal,
                  hasRemote |-> hasRemote,
                  handlers |-> HandlersOf(localSubscriptions, topic),
                  stage |-> IF hasLocal THEN "local" ELSE "remote",
                  ev |-> <<>>, result |-> "none",
                  caller |-> t,
                  nth |-> 1 + Cardinality({i \in 1..Len(items) :
                                             items[i].caller = t})]
     IN  IF hasLocal \/ hasRemote
         THEN /\ items' = AddWork(items, item)
              /\ thr' = [thr EXCEPT ![t].pc = "idle",
                                    ![t].ret = DispatchReturn(hasRemote, ser),
                                    ![t].why = "dispatched",
                                    ![t].item = Len(items) + 1,
                                    ![t].msg = IF thr[t].form = "callback"
                                               THEN "moved" ELSE content]
         ELSE /\ items' = items
              /\ thr' = [thr EXCEPT ![t] = Returned(t, "true", "nosubs")]
  /\ UNCHANGED <<proc, now, lastCbTimestamp, pubMutex, gateLog,
                 remoteSubscribers>>
  /\ UNCHANGED nodeVars
  /\ UNCHANGED sigVars
  /\ UNCHANGED ctx

(***************************************************************************)
(* The work item of a Publish: local handlers, remote send, callback.      *)
(***************************************************************************)
\* A variant in which the work item reads the caller's message object.
MessageReadOriginal(w) ==
  IF \E t \in Threads : thr[t].item = w /\ thr[t].msg # "moved"
  THEN thr[CHOOSE t \in Threads : thr[t].item = w].msg
  ELSE items[w].msgCopy

\* The message the work item reads: *msgCopy (the copy made before AddWork)
\* or *msg (the unique_ptr moved into the thread).
MessageRead(w) == items[w].msgCopy

\* A variant in which a failed serialization does not show in the result.
RemoteLegIgnoresSerialization(hasRemote, serializable, pubOk) ==
  IF hasRemote /\ ~pubOk THEN "false" ELSE "true"

\* bool result = true; if (hasRemoteSubscribers) result =
\* SendToRemoteSubscribers(*msg): false when SerializeToString fails, else
\* what NodeShared::Publish returns.
RemoteLegResult(hasRemote, serializable, pubOk) ==
  IF ~hasRemote THEN "true"
  ELSE IF ~serializable THEN "false"
  ELSE IF pubOk THEN "true" ELSE "false"

\* The read that ends the process instead of giving a value.
Fault == <<"SIGSEGV">>

\* What a work item reads through the this it captured: the member's value
\* while the PublisherPrivate lives; once the last handle is destroyed the
\* read is of freed memory: it gives the old bytes or anything else, or it
\* faults.
ReadThroughThis(id, value) ==
  IF privs[id].state = "live" THEN {value} ELSE {value, <<"?">>, Fault}

\* The handler takes the message: it is generic or of the message's type.
Matches(h, type) == h.type = kGenericMessageType \/ h.type = type

\* SendToLocalSubscribers over the captured handlers, in the map's order:
\* the calls of RunLocalCallback it makes, up to the callback that throws
\* (thrower is that handler, 0 when none throws).
RECURSIVE LocalCalls(_, _, _, _, _)
LocalCalls(todo, type, content, info, thrower) ==
  IF todo = <<>> THEN <<>>
  ELSE LET h == Head(todo)
       IN  IF h.type = "null" \/ ~Matches(h, type)
           THEN LocalCalls(Tail(todo), type, content, info, thrower)
           ELSE IF h.hUuid = thrower
           THEN << <<"throw", h.hUuid>> >>
           ELSE << <<"local", h.hUuid, content, info>> >>
                \o LocalCalls(Tail(todo), type, content, info, thrower)

Threw(calls) == calls # <<>> /\ calls[Len(calls)][1] = "throw"

\* The work item runs SendToLocalSubscribers. A callback that throws leaves
\* the loop and the work item; in a detached thread that is std::terminate,
\* in the worker pool it is the pool's business.
LocalStep(w, thrower, terminates) ==
  /\ proc = "running"
  /\ w \in 1..Len(items)
  /\ items[w].stage = "local"
  /\ items[w].form = "callback" => terminates
  /\ \E info \in ReadThroughThis(items[w].priv,
                                  privs[items[w].priv].topicWithoutPartition) :
       LET it == items[w]
           calls == LocalCalls(OrderedHandlers(it.handlers), it.type,
                               MessageRead(w), info, thrower)
       IN  IF info = Fault
           THEN /\ items' = [items EXCEPT ![w].stage = "faulted"]
                /\ proc' = "aborted"
           ELSE /\ items' = [items EXCEPT
                     ![w].stage = IF Threw(calls) THEN "faulted" ELSE "remote",
                     ![w].ev = @ \o calls]
                /\ proc' = IF Threw(calls) /\ terminates
                           THEN "aborted" ELSE proc
  /\ UNCHANGED <<now, lastCbTimestamp, pubMutex, thr, gateLog,
                 remoteSubscribers>>
  /\ UNCHANGED nodeVars
  /\ UNCHANGED sigVars
  /\ UNCHANGED ctx

\* SendToRemoteSubscribers when the lookup found remote subscribers:
\* serialize, then NodeShared::Publish(topic, data, type).
RemoteStep(w, pubOk) ==
  /\ proc = "running"
  /\ w \in 1..Len(items)
  /\ items[w].stage = "remote"
  /\ \E topic \in ReadThroughThis(items[w].priv,
                                   privs[items[w].priv].publisher.topic) :
       LET it == items[w]
           after == IF it.form = "callback" THEN "callback" ELSE "done"
           res == RemoteLegResult(it.hasRemote, it.serializable, pubOk)
       IN  IF ~(it.hasRemote /\ it.serializable)
           THEN /\ items' = [items EXCEPT ![w].stage = after,
                                          ![w].result = res]
                /\ proc' = proc
           ELSE IF topic = Fault
           THEN /\ items' = [items EXCEPT ![w].stage = "faulted"]
                /\ proc' = "aborted"
           ELSE /\ items' = [items EXCEPT ![w].stage = after,
                     ![w].result = res,
                     ![w].ev = Append(@, <<"remote", topic, it.type,
                                           MessageRead(w), pubOk>>)]
                /\ proc' = proc
  /\ UNCHANGED <<now, lastCbTimestamp, pubMutex, thr, gateLog,
                 remoteSubscribers>>
  /\ UNCHANGED nodeVars
  /\ UNCHANGED sigVars
  /\ UNCHANGED ctx

\* The completion callback of the callback form: _cb(std::move(msg), result).
CallbackStep(w) ==
  /\ proc = "running"
  /\ w \in 1..Len(items)
  /\ items[w].stage = "callback"
  /\ items' = [items EXCEPT ![w].stage = "done",
                 ![w].ev = Append(@, <<"cb", items[w].result>>)]
  /\ UNCHANGED <<proc, now, lastCbTimestamp, pubMutex, thr, gateLog,
                 remoteSubscribers>>
  /\ UNCHANGED nodeVars
  /\ UNCHANGED sigVars
  /\ UNCHANGED ctx

(***************************************************************************)
(* The environment of the publish path.                                    *)
(***************************************************************************)
\* The steady clock advances.
Tick ==
  /\ proc = "running"
  /\ now < MaxTime
  /\ now' = now + 1
  /\ UNCHANGED <<proc, lastCbTimestamp, pubMutex, thr, gateLog, items,
                 remoteSubscribers>>
  /\ UNCHANGED nodeVars
  /\ UNCHANGED sigVars
  /\ UNCHANGED ctx

\* After a fire-and-forget Publish returned, the caller writes to its
\* message or destroys it.
MutateOriginal(t) ==
  /\ proc = "running"
  /\ thr[t].pc = "idle"
  /\ thr[t].msg \in Contents
  /\ thr' = [thr EXCEPT ![t].msg = "changed"]
  /\ UNCHANGED <<proc, now, lastCbTimestamp, pubMutex, gateLog, items,
                 remoteSubscribers>>
  /\ UNCHANGED nodeVars
  /\ UNCHANGED sigVars
  /\ UNCHANGED ctx

\* A remote subscriber of (topic, type) connects or leaves (NodeShared).
RemoteChange(topic, type) ==
  /\ proc = "running"
  /\ remoteSubscribers' =
       IF <<topic, type>> \in remoteSubscribers
       THEN remoteSubscribers \ {<<topic, type>>}
       ELSE remoteSubscribers \cup {<<topic, type>>}
  /\ UNCHANGED <<proc, now, lastCbTimestamp, pubMutex, thr, gateLog, items>>
  /\ UNCHANGED nodeVars
  /\ UNCHANGED sigVars
  /\ UNCHANGED ctx

\* The topic of the publishers of the publish path: "a" of node n1.
TopicA == FqTable["n1"][<<"a">>].name

\* After n1.Advertise("a", "T", rate) and an Advertise of an invalid name:
\* a valid handle and an invalid one. The steady clock reads the time since
\* its epoch, and lastCbTimestamp is the epoch.
InitPub(rates) ==
  /\ InitShutdown
  /\ InitSrv
  /\ ctx = [t \in Threads |-> "out"]
  /\ proc = "running"
  /\ ndebug = FALSE
  /\ nodeState = [n \in Nodes |-> "alive"]
  /\ topicsSubscribed = [n \in Nodes |-> {}]
  /\ localSubscriptions = {}
  /\ filters = {}
  /\ \E rate \in rates :
       /\ now \in (IF rate = 0 THEN {0} ELSE {0, TicksPerSec})
       /\ msgInfo = {MessagePublisher(TopicA, "n1", "T", rate)}
       /\ privs = [i \in PrivIds |->
            IF i = 1 THEN NewPublisher(MessagePublisher(TopicA, "n1", "T", rate))
            ELSE IF i = 2 THEN NewPublisher(EmptyPublisher) ELSE NoPriv]
  /\ unadvertised = [i \in PrivIds |-> <<>>]
  /\ last = NoOp
  /\ lastCbTimestamp = [i \in PrivIds |-> 0]
  /\ pubMutex = [i \in PrivIds |-> "none"]
  /\ thr = [t \in Threads |-> Idle]
  /\ gateLog = [i \in PrivIds |-> <<>>]
  /\ items = <<>>
  /\ remoteSubscribers = {}

\* No Publish was called yet.
NothingPublished == items = <<>> /\ \A t \in Threads : thr[t] = Idle

\* The subscribers arrive, then one caller thread publishes and the workers
\* run the work items.
NextPub ==
  \/ \E type \in HandlerTypes, hid \in HandlerIds :
        NothingPublished /\ Subscribe("n2", <<"/", "a">>, type, hid, TRUE)
  \/ \E type \in MsgTypes : NothingPublished /\ RemoteChange(TopicA, type)
  \/ \E id \in PrivIds, type \in MsgTypes, form \in Forms :
        PublishBegin("t1", id, type, form, MaxDispatch)
  \/ ThrottleLock("t1")
  \/ ThrottleRead("t1")
  \/ ThrottleUpdate("t1")
  \/ \E content \in Contents, ser \in BOOLEAN :
        LookupAndDispatch("t1", content, ser)
  \/ EarlyCallback("t1")
  \/ \E w \in 1..MaxDispatch, thrower \in {0} \cup HandlerIds,
        terminates \in BOOLEAN : LocalStep(w, thrower, terminates)
  \/ \E w \in 1..MaxDispatch, pubOk \in BOOLEAN : RemoteStep(w, pubOk)
  \/ MutateOriginal("t1")
  \/ \E w \in 1..MaxDispatch : CallbackStep(w)

SpecPub == InitPub({0, 2}) /\ [][NextPub]_vars

\* Several threads publish on the same handles while the clock advances.
\* Handles of every origin next to local and remote subscribers: the
\* connections they report and what a Publish on an invalid one does.
NextConn ==
  \/ \E id \in PrivIds, arg \in {<<"a">>, <<>>}, discOk \in BOOLEAN :
        Advertise(id, "n1", arg, "T", 0, discOk)
  \/ \E id \in PrivIds : DefaultConstruct(id)
  \/ \E type \in HandlerTypes, hid \in HandlerIds :
        Subscribe("n2", <<"/", "a">>, type, hid, TRUE)
  \/ \E type \in MsgTypes : RemoteChange(TopicA, type)
  \/ \E id \in PrivIds : HasConnectionsCall(id)
  \/ \E id \in PrivIds, form \in Forms :
        /\ ~Valid(privs[id])
        /\ PublishBegin("t1", id, "T", form, MaxDispatch)
  \/ EarlyCallback("t1")

SpecConn == InitBuild({FALSE}) /\ [][NextConn]_vars

(***************************************************************************)
(* waitForShutdown and signal_handler.                                     *)
(***************************************************************************)
Signals == {"SIGINT", "SIGTERM", "SIGUSR1"}

\* if (_signal == SIGINT || _signal == SIGTERM)
SetsShutdown(sig) == sig \in {"SIGINT", "SIGTERM"}

\* The thread runs its own code: no signal handler is on top of it.
Runs(t) == proc = "running" /\ wfs[t].hpc = "none"

\* waitForShutdown is entered: std::signal(SIGINT / SIGTERM, signal_handler).
\* late: the flag was set when the call started (history).
WaitCall(t) ==
  /\ Runs(t)
  /\ wfs[t].pc \in {"idle", "returned"}
  /\ wfs[t].calls < MaxWaits
  /\ installed' = TRUE
  /\ wfs' = [wfs EXCEPT ![t].pc = "lock", ![t].late = g_shutdown,
                        ![t].calls = @ + 1]
  /\ UNCHANGED <<proc, g_shutdown, g_shutdown_mutex, sigLog>>
  /\ UNCHANGED pubVars
  /\ UNCHANGED nodeVars
  /\ UNCHANGED ctx

\* std::unique_lock<std::mutex> lk(g_shutdown_mutex), and the lock taken
\* again when the wait on the condition ends.
WaitLock(t) ==
  /\ Runs(t)
  /\ wfs[t].pc \in {"lock", "relock"}
  /\ g_shutdown_mutex = "none"
  /\ g_shutdown_mutex' = t
  /\ wfs' = [wfs EXCEPT ![t].pc = "check"]
  /\ UNCHANGED <<proc, g_shutdown, installed, sigLog>>
  /\ UNCHANGED pubVars
  /\ UNCHANGED nodeVars
  /\ UNCHANGED ctx

\* g_shutdown_cv.wait(lk, []{return g_shutdown;}): the predicate is read
\* under the mutex; when it is false the mutex is released and the thread
\* blocks on the condition, in one atomic step.
WaitCheck(t) ==
  /\ Runs(t)
  /\ wfs[t].pc = "check"
  /\ IF g_shutdown
     THEN /\ wfs' = [wfs EXCEPT ![t].pc = "unlock"]
          /\ UNCHANGED g_shutdown_mutex
     ELSE /\ wfs' = [wfs EXCEPT ![t].pc = "waiting"]
          /\ g_shutdown_mutex' = "none"
  /\ UNCHANGED <<proc, g_shutdown, installed, sigLog>>
  /\ UNCHANGED pubVars
  /\ UNCHANGED nodeVars
  /\ UNCHANGED ctx

\* A spurious wake-up of the wait on the condition.
WaitWake(t) ==
  /\ Runs(t)
  /\ wfs[t].pc = "waiting"
  /\ wfs' = [wfs EXCEPT ![t].pc = "relock"]
  /\ UNCHANGED <<proc, g_shutdown, g_shutdown_mutex, installed, sigLog>>
  /\ UNCHANGED pubVars
  /\ UNCHANGED nodeVars
  /\ UNCHANGED ctx

\* waitForShutdown returns: ~unique_lock releases the mutex.
WaitReturn(t) ==
  /\ Runs(t)
  /\ wfs[t].pc = "unlock"
  /\ g_shutdown_mutex' = "none"
  /\ wfs' = [wfs EXCEPT ![t].pc = "returned"]
  /\ UNCHANGED <<proc, g_shutdown, installed, sigLog>>
  /\ UNCHANGED pubVars
  /\ UNCHANGED nodeVars
  /\ UNCHANGED ctx

\* A signal is delivered to the process and the system picks thread t to run
\* signal_handler, on top of whatever t is doing.
Deliver(t, sig) ==
  /\ Runs(t)
  /\ installed
  /\ Len(sigLog) < MaxSignals
  /\ sigLog' = Append(sigLog, sig)
  /\ wfs' = [wfs EXCEPT ![t].hpc = IF SetsShutdown(sig) THEN "lock" ELSE "none"]
  /\ UNCHANGED <<proc, g_shutdown, g_shutdown_mutex, installed>>
  /\ UNCHANGED pubVars
  /\ UNCHANGED nodeVars
  /\ UNCHANGED ctx

\* signal_handler: g_shutdown_mutex.lock(). When the interrupted thread
\* itself holds the mutex, locking a std::mutex the caller owns is undefined:
\* the thread blocks on itself for ever, or lock() throws out of the handler
\* and the process terminates.
HandlerLock(t, throws) ==
  /\ proc = "running"
  /\ wfs[t].hpc = "lock"
  /\ g_shutdown_mutex \in {"none", t}
  /\ IF g_shutdown_mutex = "none"
     THEN /\ g_shutdown_mutex' = t
          /\ wfs' = [wfs EXCEPT ![t].hpc = "set"]
          /\ proc' = proc
     ELSE /\ g_shutdown_mutex' = g_shutdown_mutex
          /\ wfs' = [wfs EXCEPT ![t].hpc = "deadlocked"]
          /\ proc' = IF throws THEN "aborted" ELSE proc
  /\ UNCHANGED <<g_shutdown, installed, sigLog>>
  /\ UNCHANGED pubVars
  /\ UNCHANGED nodeVars
  /\ UNCHANGED ctx

\* signal_handler: g_shutdown = true.
HandlerSet(t) ==
  /\ proc = "running"
  /\ wfs[t].hpc = "set"
  /\ g_shutdown' = TRUE
  /\ wfs' = [wfs EXCEPT ![t].hpc = "unlock"]
  /\ UNCHANGED <<proc, g_shutdown_mutex, installed, sigLog>>
  /\ UNCHANGED pubVars
  /\ UNCHANGED nodeVars
  /\ UNCHANGED ctx

\* signal_handler: g_shutdown_mutex.unlock().
HandlerUnlock(t) ==
  /\ proc = "running"
  /\ wfs[t].hpc = "unlock"
  /\ g_shutdown_mutex' = "none"
  /\ wfs' = [wfs EXCEPT ![t].hpc = "notify"]
  /\ UNCHANGED <<proc, g_shutdown, installed, sigLog>>
  /\ UNCHANGED pubVars
  /\ UNCHANGED nodeVars
  /\ UNCHANGED ctx

\* signal_handler: g_shutdown_cv.notify_all(), and the handler returns.
HandlerNotify(t) ==
  /\ proc = "running"
  /\ wfs[t].hpc = "notify"
  /\ wfs' = [u \in Threads |->
               IF u = t THEN [wfs[u] EXCEPT !.hpc = "none",
                                !.pc = IF @ = "waiting" THEN "relock" ELSE @]
               ELSE IF wfs[u].pc = "waiting"
                    THEN [wfs[u] EXCEPT !.pc = "relock"]
                    ELSE wfs[u]]
  /\ UNCHANGED <<proc, g_shutdown, g_shutdown_mutex, installed, sigLog>>
  /\ UNCHANGED pubVars
  /\ UNCHANGED nodeVars
  /\ UNCHANGED ctx

\* The steps a thread takes by itself once it can: the scheduler runs every
\* thread that is not blocked.
ThreadStep(t) ==
  \/ WaitCheck(t)
  \/ WaitReturn(t)
  \/ HandlerSet(t)
  \/ HandlerUnlock(t)
  \/ HandlerNotify(t)

\* The steps in which a thread takes the shutdown mutex: a thread that asks
\* for a mutex that is free again and again gets it.
LockStep(t) ==
  \/ WaitLock(t)
  \/ \E throws \in BOOLEAN : HandlerLock(t, throws)

NextShutdown ==
  \/ \E t \in Threads : WaitCall(t)
  \/ \E t \in Threads : WaitLock(t)
  \/ \E t \in Threads : WaitCheck(t)
  \/ \E t \in Threads : WaitWake(t)
  \/ \E t \in Threads : WaitReturn(t)
  \/ \E t \in Threads, sig \in Signals : Deliver(t, sig)
  \/ \E t \in Threads, throws \in BOOLEAN : HandlerLock(t, throws)
  \/ \E t \in Threads : HandlerSet(t)
  \/ \E t \in Threads : HandlerUnlock(t)
  \/ \E t \in Threads : HandlerNotify(t)

SpecShutdown ==
  /\ InitBuild({FALSE})
  /\ [][NextShutdown]_vars
  /\ \A t \in Threads : WF_vars(ThreadStep(t)) /\ SF_vars(LockStep(t))

NextThrottle ==
  \/ \E t \in Threads, id \in PrivIds :
        PublishBegin(t, id, "T", "forget", MaxPublishes)
  \/ \E t \in Threads : ThrottleLock(t)
  \/ \E t \in Threads : ThrottleRead(t)
  \/ \E t \in Threads : ThrottleUpdate(t)
  \/ \E t \in Threads, content \in Contents :
        LookupAndDispatch(t, content, TRUE)
  \/ Tick
  \/ RemoteChange(TopicA, "T")

SpecThrottle == InitPub(RateArgs \ {0}) /\ [][NextThrottle]_vars

(***************************************************************************)
(* Properties.                                                             *)
(***************************************************************************)

\* C1: a Publish on a valid handle with a message whose type is not the
\* advertised one returns false (the callback form hands false to the
\* callback), does not get past the sanity check and starts no work item, so
\* that every work item, and with it every handler call and transport
\* publish, carries the advertised type.
C1_TypeSafety ==
  /\ \A t \in Threads :
       (/\ thr[t].priv # 0
        /\ Valid(privs[thr[t].priv])
        /\ thr[t].type # privs[thr[t].priv].publisher.type) =>
          /\ thr[t].item = 0
          /\ \/ /\ thr[t].pc = "idle"
                /\ thr[t].ret = "false"
                /\ thr[t].form = "callback" => thr[t].cb = "false"
             \/ /\ thr[t].pc = "earlycb"
                /\ thr[t].form = "callback" /\ thr[t].res = "false"
  /\ \A w \in 1..Len(items) :
       /\ items[w].type = privs[items[w].priv].publisher.type
       /\ \A i \in 1..Len(items[w].ev) :
            items[w].ev[i][1] = "remote" =>
              items[w].ev[i][3] = privs[items[w].priv].publisher.type

C1_Witness ==
  /\ thr["t1"].priv = 1 /\ thr["t1"].type = "U" /\ thr["t1"].ret = "false"
  /\ thr["t1"].form = "callback" /\ thr["t1"].cb = "false"
  /\ \E h \in localSubscriptions : h.topic = TopicA /\ h.type = "U"
  /\ <<TopicA, "U">> \in remoteSubscribers
  /\ items = <<>>

\* ceil(rate * w / TicksPerSec): the publishes a rate allows in w ticks.
AllowedIn(rate, w) == (rate * w + TicksPerSec - 1) \div TicksPerSec

\* C2: on a throttled publisher, any two Publish calls that pass the throttle
\* gate read clock values at least one period apart, whichever threads make
\* them; so every window of w ticks holds at most ceil(k * w) + 1 of them, and
\* no more work items than that; a Publish the gate drops returns true.
C2_ThrottleHonor ==
  /\ \A id \in PrivIds :
       Throttled(privs[id]) =>
         LET g == gateLog[id]
             k == privs[id].publisher.msgsPerSec
         IN  /\ \A i, j \in 1..Len(g) :
                  i < j => (g[j] - g[i]) * k >= TicksPerSec
             /\ \A a \in 0..MaxTime, w \in 1..(MaxTime + 1) :
                  Cardinality({i \in 1..Len(g) : a <= g[i] /\ g[i] < a + w})
                    <= AllowedIn(k, w) + 1
             /\ Cardinality({w \in 1..Len(items) : items[w].priv = id})
                  <= Len(g)
  /\ \A t \in Threads : thr[t].why = "throttle" => thr[t].ret = "true"

C2_Witness ==
  /\ Len(gateLog[1]) >= 2
  /\ thr["t1"].why = "throttle" /\ thr["t1"].ret = "true"
  /\ thr["t2"].why = "dispatched"
  /\ Len(items) >= 2

\* C3: for every valid Publisher, discovery's Unadvertise(topic, nUuid) is
\* called with the publisher's fully qualified topic and node UUID exactly
\* once, when the last copy of the handle is dropped, and never while a copy
\* is alive.
C3_UnadvertiseOnLastDrop ==
  \A id \in PrivIds :
    Valid(privs[id]) =>
      /\ privs[id].state = "live" =>
           privs[id].refs >= 1 /\ unadvertised[id] = <<>>
      /\ privs[id].state = "gone" =>
           /\ privs[id].refs = 0
           /\ unadvertised[id] =
                << <<privs[id].publisher.topic, privs[id].publisher.nUuid>> >>

C3_Witness ==
  \E id \in PrivIds :
    /\ Valid(privs[id]) /\ privs[id].copied /\ privs[id].state = "gone"
    /\ last.op = "Drop"
    /\ Len(unadvertised[id]) = 1

\* C4: an Advertise of a topic for which the node has a live Publisher is
\* rejected by the node's own check, before anything is announced to
\* discovery, and returns an invalid Publisher.
C4_DuplicateRejectedByNode ==
  (last.op = "Advertise" /\ last.dup) =>
    (last.nodeRejected /\ ~last.announced /\ ~last.ret)

\* C5: the destruction of a node that has a live Publisher handle completes
\* normally: the destructor's check of the advertised topics does not fail.
C5_DestroyWithLiveHandleCompletes ==
  (last.op = "DestroyNode" /\ last.hadLive) =>
    (proc = "running" /\ nodeState[last.node] = "destroyed")

\* C6: a topic has handlers in the local subscription table if and only if
\* its filter is installed on the subscriber socket.
C6_FilterParity ==
  \A t \in FqTopics \cup filters :
    HasHandlersForTopic(localSubscriptions, t) <=> t \in filters

C6_Witness ==
  /\ last.op = "Unsubscribe" /\ last.hadSubs
  /\ ~HasHandlersForTopic(localSubscriptions, last.fq)
  /\ last.fq \notin filters
  /\ localSubscriptions # {}

\* C7: once a node's destruction has completed, the local subscription table
\* holds no handler of that node.
C7_NoHandlerOfDestroyedNode ==
  \A n \in Nodes :
    nodeState[n] = "destroyed" =>
      ~ \E h \in localSubscriptions : h.nUuid = n

C7_Witness ==
  /\ last.op = "DestroyNode" /\ last.hadSubs
  /\ nodeState[last.node] = "destroyed"
  /\ \A h \in localSubscriptions : h.nUuid # last.node

\* The work item has run to its end, or was left by an exception.
Finished(it) == it.stage \in {"done", "faulted"}

\* The calls of RunLocalCallback the work item made on handler h.
CallsOf(it, h) ==
  {i \in 1..Len(it.ev) : it.ev[i][1] = "local" /\ it.ev[i][2] = h.hUuid}

RemoteSends(it) == {i \in 1..Len(it.ev) : it.ev[i][1] = "remote"}

CallbackCalls(it) == {i \in 1..Len(it.ev) : it.ev[i][1] = "cb"}

Throwers(it) == {it.ev[i][2] : i \in {j \in 1..Len(it.ev) : it.ev[j][1] = "throw"}}

\* C8: when the callback of one matching handler throws, every other
\* matching handler of the captured map is still called, and the remote
\* send and the completion callback of the message still take place.
C8_HandlerFaultIsolated ==
  \A w \in 1..Len(items) :
    (Finished(items[w]) /\ Throwers(items[w]) # {}) =>
      /\ \A h \in items[w].handlers :
           (Matches(h, items[w].type) /\ h.hUuid \notin Throwers(items[w]))
             => CallsOf(items[w], h) # {}
      /\ (items[w].hasRemote /\ items[w].serializable) =>
           RemoteSends(items[w]) # {}
      /\ items[w].form = "callback" => CallbackCalls(items[w]) # {}

\* C9: a dispatched message with local subscribers reaches every handler of
\* the captured map that is generic or of the message's type exactly once,
\* with the message's content and the topic without its partition, and no
\* handler of another type.
C9_LocalFanOut ==
  \A w \in 1..Len(items) :
    Finished(items[w]) =>
      \A h \in items[w].handlers :
        IF Matches(h, items[w].type)
        THEN /\ Cardinality(CallsOf(items[w], h)) = 1
             /\ \A i \in CallsOf(items[w], h) :
                  /\ items[w].ev[i][3] = items[w].content
                  /\ items[w].ev[i][4] =
                       StripPartition(privs[items[w].priv].publisher.topic)
        ELSE CallsOf(items[w], h) = {}

\* C10: a dispatched publish calls the transport's publish exactly once, with
\* the fully qualified topic and the message's type, when the remote
\* subscribers held (topic, type) at the lookup and the message serializes,
\* and never when they did not.
C10_RemoteSendIffInterest ==
  \A w \in 1..Len(items) :
    Finished(items[w]) =>
      /\ (items[w].hasRemote /\ items[w].serializable) =>
           /\ Cardinality(RemoteSends(items[w])) = 1
           /\ \A i \in RemoteSends(items[w]) :
                /\ items[w].ev[i][2] = privs[items[w].priv].publisher.topic
                /\ items[w].ev[i][3] = items[w].type
      /\ ~items[w].hasRemote => RemoteSends(items[w]) = {}

\* The three, for the work items in which no callback threw.
NoThrowFanOut ==
  \A w \in 1..Len(items) :
    (Finished(items[w]) /\ Throwers(items[w]) = {}) =>
      /\ \A h \in items[w].handlers :
           Cardinality(CallsOf(items[w], h)) =
             IF Matches(h, items[w].type) THEN 1 ELSE 0
      /\ Cardinality(RemoteSends(items[w])) =
           IF items[w].hasRemote /\ items[w].serializable THEN 1 ELSE 0

\* C11: a Publish that finds, at the lookup, no local handler of the topic
\* and no remote subscriber of the topic with the message's type returns
\* true and starts no work item, so that no handler is called and nothing
\* is sent; every work item was started for a local handler or a remote
\* subscriber of the message's type.
C11_NoSubscriberNoOp ==
  /\ \A t \in Threads :
       (/\ thr[t].pc = "idle"
        /\ thr[t].ret # "none"
        /\ thr[t].why \notin {"precheck", "throttle"}
        /\ ~\E h \in localSubscriptions :
              h.topic = privs[thr[t].priv].publisher.topic
        /\ <<privs[thr[t].priv].publisher.topic, thr[t].type>>
             \notin remoteSubscribers) =>
          /\ thr[t].ret = "true"
          /\ thr[t].why = "nosubs"
          /\ thr[t].item = 0
  /\ \A t \in Threads :
       thr[t].why = "nosubs" => thr[t].ret = "true" /\ thr[t].item = 0
  /\ \A w \in 1..Len(items) :
       \/ \E h \in localSubscriptions :
            h.topic = privs[items[w].priv].publisher.topic
       \/ <<privs[items[w].priv].publisher.topic, items[w].type>>
            \in remoteSubscribers

C11_Witness ==
  /\ thr["t1"].why = "nosubs" /\ thr["t1"].ret = "true"
  /\ thr["t1"].priv = 1 /\ thr["t1"].type = "T"
  /\ remoteSubscribers = {<<TopicA, "U">>}
  /\ localSubscriptions = {}
  /\ items = <<>>

\* C13: a Publish of the callback form that returns early (sanity check,
\* throttle, no subscribers) has handed its return value to the callback
\* when it returns, false after the sanity check and true otherwise, and
\* started no work item.
C13_EarlyReturnCallback ==
  \A t \in Threads :
    (/\ thr[t].pc = "idle"
     /\ thr[t].form = "callback"
     /\ thr[t].why \in {"precheck", "throttle", "nosubs"}) =>
       /\ thr[t].cb = thr[t].ret
       /\ thr[t].item = 0
       /\ thr[t].ret = (IF thr[t].why = "precheck" THEN "false" ELSE "true")

C13_Witness ==
  /\ thr["t1"].pc = "idle" /\ thr["t1"].form = "callback"
  /\ thr["t1"].why = "throttle" /\ thr["t1"].cb = "true"
  /\ localSubscriptions # {}

\* The positions of the work item's log that hold events of one kind.
EventsOf(it, kind) == {i \in 1..Len(it.ev) : it.ev[i][1] = kind}

\* Within one work item the local calls come before the remote send, and
\* the completion callback after both, at most once.
StepOrder ==
  \A w \in 1..Len(items) :
    /\ \A i \in EventsOf(items[w], "local"), j \in EventsOf(items[w], "remote") :
         i < j
    /\ \A i \in EventsOf(items[w], "local") \cup EventsOf(items[w], "remote"),
          j \in EventsOf(items[w], "cb") : i < j
    /\ Cardinality(EventsOf(items[w], "cb")) <= 1
    /\ items[w].form = "forget" => EventsOf(items[w], "cb") = {}

\* C14: for every dispatched message the local handler calls come before
\* the remote send, and in the callback form the completion callback is
\* called exactly once, after the local calls and the remote send.
C14_StepOrdering ==
  /\ StepOrder
  /\ \A w \in 1..Len(items) :
       (items[w].form = "callback" /\ Finished(items[w])) =>
         Cardinality(EventsOf(items[w], "cb")) = 1

\* C15: the value the completion callback of a dispatched message gets is
\* true when the lookup found no remote subscriber, false when the message
\* does not serialize, and otherwise what the transport's publish returned,
\* whatever local handlers there were; the Publish call returned true.
C15_CallbackResult ==
  \A w \in 1..Len(items) :
    /\ \A i \in EventsOf(items[w], "cb") :
         items[w].ev[i][2] =
           IF ~items[w].hasRemote THEN "true"
           ELSE IF ~items[w].serializable THEN "false"
           ELSE IF \E j \in EventsOf(items[w], "remote") : items[w].ev[j][5]
                THEN "true" ELSE "false"
    /\ \A t \in Threads : thr[t].item = w => thr[t].ret = "true"

C15_Witness ==
  \E w \in 1..Len(items) :
    /\ items[w].form = "callback" /\ items[w].stage = "done"
    /\ items[w].hasLocal /\ items[w].hasRemote /\ ~items[w].serializable
    /\ EventsOf(items[w], "local") # {}
    /\ \E i \in EventsOf(items[w], "cb") : items[w].ev[i][2] = "false"

\* C16: in the fire-and-forget form the handlers and the transport get the
\* content the message had when Publish was called, also when the caller
\* writes to its message or destroys it after Publish returned.
C16_MessageLifetime ==
  \A w \in 1..Len(items) :
    items[w].form = "forget" =>
      /\ \A i \in EventsOf(items[w], "local") :
           items[w].ev[i][3] = items[w].content
      /\ \A i \in EventsOf(items[w], "remote") :
           items[w].ev[i][4] = items[w].content

C16_Witness ==
  /\ thr["t1"].msg = "changed" /\ thr["t1"].item = 1
  /\ Len(items) >= 1
  /\ items[1].form = "forget" /\ items[1].stage = "done"
  /\ EventsOf(items[1], "local") # {}
  /\ EventsOf(items[1], "remote") # {}

\* C12: HasConnections returns true exactly when the handle is valid and
\* the topic has a local handler of the advertised type or a generic one, or
\* the remote subscribers hold the topic with the advertised type; so it is
\* false on an invalid handle and when every local handler of the topic has
\* another type and no remote subscriber matches.
C12_HasConnections ==
  /\ last.op = "HasConnections" =>
       /\ last.ret <=> (last.valid /\ (last.localMatch \/ last.remoteMatch))
       /\ ~last.valid => ~last.ret
       /\ (last.hadSubs /\ ~last.localMatch /\ ~last.remoteMatch) => ~last.ret
  /\ \A id \in LivePrivs :
       HasConnections(privs[id], localSubscriptions, remoteSubscribers) <=>
         /\ privs[id].publisher.topic # <<>>
         /\ \/ \E h \in localSubscriptions :
                 /\ h.topic = privs[id].publisher.topic
                 /\ h.type \in {privs[id].publisher.type, kGenericMessageType}
            \/ <<privs[id].publisher.topic, privs[id].publisher.type>>
                 \in remoteSubscribers

C12_Witness ==
  /\ last.op = "HasConnections" /\ last.ret
  /\ last.valid /\ last.hadSubs /\ ~last.localMatch /\ last.remoteMatch

\* The handle the last Advertise or Publisher() returned: the newest one.
LastHandle ==
  privs[CHOOSE id \in PrivIds :
          /\ privs[id].state # "free"
          /\ \A j \in PrivIds : privs[j].state # "free" => j <= id]

\* C20: a default-constructed Publisher and the Publisher an Advertise
\* returns when it fails are invalid; an invalid handle reports no
\* connections, and every Publish on it returns false after the sanity
\* check (the callback form hands false to its callback) and starts no work
\* item.
C20_InvalidHandleInert ==
  /\ last.op = "Publisher" => ~Valid(LastHandle)
  /\ last.op = "Advertise" => (Valid(LastHandle) <=> last.ret)
  /\ \A id \in LivePrivs :
       privs[id].publisher.topic = <<>> =>
         /\ ~Valid(privs[id])
         /\ ~HasConnections(privs[id], localSubscriptions, remoteSubscribers)
  /\ (last.op = "HasConnections" /\ ~last.valid) => ~last.ret
  /\ \A t \in Threads :
       (thr[t].priv # 0 /\ privs[thr[t].priv].publisher.topic = <<>>) =>
         /\ thr[t].item = 0
         /\ \/ /\ thr[t].pc = "idle"
               /\ thr[t].ret = "false" /\ thr[t].why = "precheck"
               /\ thr[t].form = "callback" => thr[t].cb = "false"
            \/ /\ thr[t].pc = "earlycb"
               /\ thr[t].form = "callback"
               /\ thr[t].res = "false" /\ thr[t].reason = "precheck"
  /\ \A w \in 1..Len(items) : privs[items[w].priv].publisher.topic # <<>>

C20_Witness ==
  /\ last.op = "HasConnections" /\ ~last.valid /\ ~last.ret
  /\ thr["t1"].priv = last.priv
  /\ thr["t1"].ret = "false" /\ thr["t1"].cb = "false"
  /\ localSubscriptions # {} /\ remoteSubscribers # {}
  /\ \E id \in LivePrivs : Valid(privs[id])

\* The handles of a node that are alive and valid.
LiveHandlesOf(n) ==
  {id \in LivePrivs : Valid(privs[id]) /\ privs[id].publisher.nUuid = n}

\* C19: AdvertisedTopics() of a node is the set of the topics, without
\* their partition, of the node's live Publisher handles.
C19_AdvertisedTopicsView ==
  \A n \in Nodes :
    AdvertisedTopics(msgInfo, n) =
      {StripPartition(privs[id].publisher.topic) : id \in LiveHandlesOf(n)}

\* The thread is inside waitForShutdown.
InWait(t) == wfs[t].pc \in {"lock", "check", "waiting", "relock", "unlock"}

\* signal_handler was started for an interrupt or terminate signal.
Signalled == \E i \in 1..Len(sigLog) : SetsShutdown(sigLog[i])

\* C17: a thread that is in waitForShutdown when an interrupt or terminate
\* signal has been delivered, on whichever thread the handler runs,
\* eventually returns from it.
C17_ShutdownWakeup ==
  \A t \in Threads : (InWait(t) /\ Signalled) ~> (wfs[t].pc = "returned")

\* The flag is never cleared, it is set only after an interrupt or terminate
\* signal, and a call that started with the flag set never waits on the
\* condition.
StickyLatch ==
  /\ g_shutdown => Signalled
  /\ \A t \in Threads :
       /\ (wfs[t].late /\ InWait(t)) => g_shutdown
       /\ wfs[t].late => wfs[t].pc \notin {"waiting", "relock"}

FlagStaysSet == [][g_shutdown => g_shutdown']_vars

\* C18: once signal_handler has set the flag it stays set, only an
\* interrupt or terminate signal sets it, and every waitForShutdown call
\* started afterwards returns, without waiting on the condition.
C18_StickyLatch ==
  /\ [][g_shutdown => g_shutdown']_vars
  /\ []StickyLatch
  /\ \A t \in Threads :
       (wfs[t].late /\ InWait(t)) ~> (wfs[t].pc = "returned")

\* The control messages of the last operation addressed to a.
MsgsTo(a) == {i \in 1..Len(last.ctrl) : last.ctrl[i].to = a}

\* C21: when the only subscribing node of a topic unsubscribes, the transport
\* filter of the topic is removed and, when discovery returns the publishers
\* of the topic, every returned publisher is sent exactly one control message
\* of exactly five frames: fully qualified topic, data address of the sender,
\* node UUID of the sender, generic type sentinel, end-connection opcode.
C21_TeardownNotification ==
  (/\ last.op = "Unsubscribe" /\ last.hadSubs
   /\ ~HasHandlersForTopic(localSubscriptions, last.fq))
  => /\ last.fq \notin filters
     /\ last.ret =>
          /\ Len(last.ctrl) = Cardinality(Publishers(msgInfo, last.fq))
          /\ \A p \in Publishers(msgInfo, last.fq) :
               Cardinality(MsgsTo(p.ctrl)) =
                 Cardinality({q \in Publishers(msgInfo, last.fq) :
                                q.ctrl = p.ctrl})
          /\ \A i \in 1..Len(last.ctrl) :
               /\ Len(last.ctrl[i].frames) = 5
               /\ last.ctrl[i].frames[1] = last.fq
               /\ last.ctrl[i].frames[2] = myAddress
               /\ last.ctrl[i].frames[3] = last.node
               /\ last.ctrl[i].frames[4] = kGenericMessageType
               /\ last.ctrl[i].frames[5] = "EndConnection"
     /\ ~last.ret => last.ctrl = <<>>

C21_Witness ==
  /\ last.op = "Unsubscribe" /\ last.hadSubs /\ last.ret
  /\ ~HasHandlersForTopic(localSubscriptions, last.fq)
  /\ Publishers(msgInfo, last.fq) # {}
  /\ Len(last.ctrl) = 1
  /\ last.fq \notin filters

\* C27: N.Unsubscribe(t) with a valid name removes exactly the handlers of
\* node N for the fully qualified t and erases t from N's subscribed set;
\* the handlers of other nodes and of other topics and the subscribed sets of
\* other nodes are unchanged, and the filter of t is removed only if no
\* handler of any node is left for t.
C27_UnsubscribeFrame ==
  [][(last'.op = "Unsubscribe" /\ last'.valid) =>
       LET n == last'.node
           fq == last'.fq
       IN  /\ localSubscriptions' =
                {h \in localSubscriptions : h.nUuid # n \/ h.topic # fq}
           /\ topicsSubscribed'[n] = topicsSubscribed[n] \ {fq}
           /\ \A m \in Nodes \ {n} :
                topicsSubscribed'[m] = topicsSubscribed[m]
           /\ filters' \ {fq} = filters \ {fq}
           /\ (fq \in filters /\ fq \notin filters') =>
                ~ \E h \in localSubscriptions' : h.topic = fq
           /\ (fq \in filters /\
               \E h \in localSubscriptions : h.topic = fq /\ h.nUuid # n)
                => fq \in filters']_vars

C27_Witness ==
  /\ last.op = "Unsubscribe" /\ last.valid /\ last.hadSubs
  /\ last.fq \notin topicsSubscribed[last.node]
  /\ ~ \E h \in localSubscriptions :
         h.topic = last.fq /\ h.nUuid = last.node
  /\ \E h \in localSubscriptions :
         h.topic = last.fq /\ h.nUuid # last.node
  /\ last.fq \in filters

\* C28: the end-connection control message is sent only when the
\* unsubscribing node loses its last interest in the topic: an Unsubscribe by
\* a node that holds no handler for the topic sends no control message.
C28_NoInterestNoMessage ==
  (last.op = "Unsubscribe" /\ ~last.hadSubs) => last.ctrl = <<>>

\* C22: a fire-and-forget Publish that passed the sanity check returned true,
\* also when the message does not serialize or the transport's publish
\* fails; such a failure leaves every type-matching captured handler called
\* once with the message.
C22_ForgetErrorOpacity ==
  /\ \A t \in Threads :
       (thr[t].form = "forget" /\ thr[t].pc = "idle" /\
        thr[t].why \notin {"none", "precheck"}) => thr[t].ret = "true"
  /\ \A w \in 1..Len(items) :
       (items[w].form = "forget" /\ items[w].stage = "done" /\
        items[w].result = "false") =>
          \A h \in items[w].handlers :
            (h.type = kGenericMessageType \/ h.type = items[w].type) =>
              \E i \in 1..Len(items[w].ev) :
                /\ CallsOf(items[w], h) = {i}
                /\ items[w].ev[i][3] = items[w].content

C22_Witness ==
  \E w \in 1..Len(items), t \in Threads :
    /\ items[w].form = "forget" /\ items[w].stage = "done"
    /\ items[w].hasLocal /\ items[w].hasRemote
    /\ items[w].result = "false"
    /\ EventsOf(items[w], "local") # {}
    /\ thr[t].item = w /\ thr[t].ret = "true"

\* C23: of two fire-and-forget Publish calls on one Publisher made one after
\* the other by one thread and both dispatched, the work item of the earlier
\* call is in the worker pool's queue ahead of the work item of the later.
C23_DispatchOrder ==
  \A i \in 1..Len(items), j \in 1..Len(items) :
    (/\ items[i].caller = items[j].caller
     /\ items[i].priv = items[j].priv
     /\ items[i].form = "forget" /\ items[j].form = "forget"
     /\ items[i].nth < items[j].nth) => i < j

C23_Witness ==
  /\ Len(items) = 2
  /\ items[1].caller = items[2].caller
  /\ items[1].priv = items[2].priv
  /\ items[1].form = "forget" /\ items[2].form = "forget"
  /\ items[1].nth = 1 /\ items[2].nth = 2

\* The time of the last Publish on handle id that passed the throttle gate
\* (the handle's initial stamp when none did).
LastEmitAt(id) ==
  IF gateLog[id] = <<>> THEN 0 ELSE gateLog[id][Len(gateLog[id])]

\* A Publish of thread t is dropped by the throttle gate in this step.
Dropped(t) ==
  thr[t].pc = "compare" /\ thr'[t].pc = "idle" /\ thr'[t].why = "throttle"

\* C26: a Publish dropped by the throttle gate leaves the handle's time of
\* last emission unchanged, and the elapsed time every Publish compares with
\* the period is measured from the last Publish that passed the gate.
C26_DropKeepsLastEmit ==
  /\ [][\A t \in Threads :
          Dropped(t) => lastCbTimestamp' = lastCbTimestamp]_vars
  /\ [](\A t \in Threads :
          thr[t].pc = "compare" =>
            thr[t].elapsed = thr[t].now - LastEmitAt(thr[t].priv))

C26_Witness ==
  \E t \in Threads :
    /\ thr[t].pc = "idle" /\ thr[t].why = "throttle"
    /\ gateLog[thr[t].priv] # <<>>
    /\ thr[t].now > LastEmitAt(thr[t].priv)
    /\ lastCbTimestamp[thr[t].priv] = LastEmitAt(thr[t].priv)

\* Subscribers come and go and node n2 is destroyed at any moment of a
\* Publish on n1's handle: before the lookup, between the lookup and the
\* work item's execution, and after it.
NextSnap ==
  \/ \E type \in HandlerTypes, hid \in HandlerIds :
        Subscribe("n2", <<"/", "a">>, type, hid, TRUE)
  \/ Unsubscribe("n2", <<"/", "a">>, TRUE)
  \/ DestroyNode("n2", {}, {})
  \/ RemoteChange(TopicA, "T")
  \/ \E form \in Forms : PublishBegin("t1", 1, "T", form, MaxDispatch)
  \/ ThrottleLock("t1")
  \/ ThrottleRead("t1")
  \/ \E content \in Contents : LookupAndDispatch("t1", content, TRUE)
  \/ EarlyCallback("t1")
  \/ \E w \in 1..MaxDispatch, thrower \in {0} \cup HandlerIds,
        terminates \in BOOLEAN : LocalStep(w, thrower, terminates)
  \/ \E w \in 1..MaxDispatch, pubOk \in BOOLEAN : RemoteStep(w, pubOk)
  \/ \E w \in 1..MaxDispatch : CallbackStep(w)

SpecSnap == InitPub({0}) /\ [][NextSnap]_vars

\* The handlers the work item called, and the handlers of the lookup's
\* snapshot that take the message.
InvokedIds(it) == {it.ev[i][2] : i \in EventsOf(it, "local")}

SnapshotIds(it) ==
  {h.hUuid : h \in {g \in it.handlers :
                      g.type = kGenericMessageType \/ g.type = it.type}}

\* The table has changed since the lookup of the work item.
TableChanged(it) ==
  HandlersOf(localSubscriptions, privs[it.priv].publisher.topic) # it.handlers

NoThrowSnapshot ==
  \A w \in 1..Len(items) :
    (Finished(items[w]) /\ Throwers(items[w]) = {}) =>
      /\ InvokedIds(items[w]) = SnapshotIds(items[w])
      /\ (RemoteSends(items[w]) # {}) <=> items[w].hasRemote

\* A handler is invoked after its node unsubscribed and was destroyed.
SnapshotReached ==
  \E w \in 1..Len(items) :
    /\ items[w].stage = "done" /\ TableChanged(items[w])
    /\ InvokedIds(items[w]) # {}
    /\ nodeState["n2"] = "destroyed"
    /\ items[w].hasRemote /\ remoteSubscribers = {}

\* Nodes advertise and unadvertise services and subscribe to topics, and are
\* destroyed while discovery's answers fail.
NextSrv ==
  \/ \E n \in Nodes, arg \in TopicArgs, rid \in HandlerIds :
        AdvertiseSrv(n, arg, rid, TRUE)
  \/ \E n \in Nodes, arg \in TopicArgs, discOk \in BOOLEAN :
        UnadvertiseSrv(n, arg, discOk)
  \/ \E n \in Nodes : Subscribe(n, <<"a">>, "T", 1, TRUE)
  \/ \E n \in Nodes, pubsOk \in BOOLEAN : Unsubscribe(n, <<"a">>, pubsOk)
  \/ \E n \in Nodes :
        \E failed \in SUBSET SubscribedTopics(topicsSubscribed, n),
           srvFailed \in SUBSET AdvertisedServices(srvsAdvertised, n) :
             DestroyNode(n, failed, srvFailed)

SpecSrv == Init /\ [][NextSrv]_vars

\* C25: after a node's destructor its set of subscribed topics and its set
\* of advertised services are empty, also when discovery's Publishers lookup
\* or the service Unadvertise failed for some of them; the subscribed set is
\* empty after the destructor's unsubscribe loop.
C25_DestructionEmptiesSets ==
  /\ \A n \in Nodes :
       nodeState[n] = "destroyed" =>
         topicsSubscribed[n] = {} /\ srvsAdvertised[n] = {}
  /\ last.op = "DestroyNode" => topicsSubscribed[last.node] = {}

C25_Witness ==
  /\ last.op = "DestroyNode" /\ last.hadSubs /\ last.valid
  /\ last.lookupFailed /\ last.unadvFailed
  /\ nodeState[last.node] = "destroyed"
  /\ topicsSubscribed[last.node] = {} /\ srvsAdvertised[last.node] = {}
  /\ \E m \in Nodes : srvsAdvertised[m] # {}

\* C29: UnadvertiseSrv with a valid name leaves the service out of the
\* node's set and no replier of the node for it in the replier table, also
\* when service discovery's Unadvertise fails and the call returns false;
\* the repliers of other nodes and of other services and the other services
\* of the node are unchanged; with an invalid name it returns false and
\* changes nothing.
C29_UnadvertiseSrvFrame ==
  [][\A n \in Nodes, arg \in TopicArgs, discOk \in BOOLEAN :
       UnadvertiseSrv(n, arg, discOk) =>
         LET r == NodeFq(n, arg)
         IN  IF r.ok
             THEN /\ r.name \notin srvsAdvertised'[n]
                  /\ srvsAdvertised'[n] \ {r.name} = srvsAdvertised[n] \ {r.name}
                  /\ \A m \in Nodes \ {n} :
                       srvsAdvertised'[m] = srvsAdvertised[m]
                  /\ repliers' =
                       {h \in repliers : h.nUuid # n \/ h.topic # r.name}
                  /\ last'.ret = discOk
             ELSE /\ ~last'.ret
                  /\ UNCHANGED <<srvsAdvertised, repliers, srvInfo,
                                 topicsSubscribed, localSubscriptions,
                                 filters>>]_vars

C29_Witness ==
  /\ last.op = "UnadvertiseSrv" /\ last.valid /\ last.hadSubs /\ ~last.ret
  /\ last.fq \notin srvsAdvertised[last.node]
  /\ ~ \E h \in repliers : h.topic = last.fq /\ h.nUuid = last.node
  /\ \E h \in repliers : h.topic = last.fq /\ h.nUuid # last.node

(***************************************************************************)
(* The recursive mutex of the shared context, next to the publishers'      *)
(* mutexes: two threads publish and call the node while handles come and   *)
(* go.                                                                     *)
(***************************************************************************)
\* std::lock_guard<std::recursive_mutex> lk(shared->mutex) is reached: by
\* CheckSubscribers inside a Publish, or by a call made outside of one.
CtxWant(t) ==
  /\ proc = "running"
  /\ ctx[t] = "out"
  /\ thr[t].pc \in {"idle", "lookup"}
  /\ ctx' = [ctx EXCEPT ![t] = "waiting"]
  /\ UNCHANGED proc
  /\ UNCHANGED nodeVars
  /\ UNCHANGED pubVars
  /\ UNCHANGED sigVars

\* The lock is taken once no other thread holds it.
CtxAcquire(t) ==
  /\ proc = "running"
  /\ ctx[t] = "waiting"
  /\ \A u \in Threads : ctx[u] # "held"
  /\ ctx' = [ctx EXCEPT ![t] = "held"]
  /\ UNCHANGED proc
  /\ UNCHANGED nodeVars
  /\ UNCHANGED pubVars
  /\ UNCHANGED sigVars

\* ~lock_guard: the end of the call, or of the lookup's block.
CtxRelease(t) ==
  /\ proc = "running"
  /\ ctx[t] = "held"
  /\ thr[t].pc # "lookup"
  /\ ctx' = [ctx EXCEPT ![t] = "out"]
  /\ UNCHANGED proc
  /\ UNCHANGED nodeVars
  /\ UNCHANGED pubVars
  /\ UNCHANGED sigVars

\* Thread t is in a call of the node or of a handle, under the mutex.
InCall(t) == ctx[t] = "held" /\ thr[t].pc = "idle"

\* No thread is inside a Publish on the handle.
Quiet(id) == \A t \in Threads : thr[t].pc = "idle" \/ thr[t].priv # id

NextLock ==
  \/ \E t \in Threads : CtxWant(t)
  \/ \E t \in Threads : CtxAcquire(t)
  \/ \E t \in Threads : CtxRelease(t)
  \/ \E t \in Threads, id \in {1, 2}, rate \in {0, 2} :
        InCall(t) /\ Advertise(id, "n1", <<"a">>, "T", rate, TRUE)
  \/ \E t \in Threads, id \in {1, 2} :
        InCall(t) /\ Quiet(id) /\ DropHandle(id)
  \/ \E t \in Threads, id \in {1, 2} : InCall(t) /\ HasConnectionsCall(id)
  \/ \E t \in Threads :
        InCall(t) /\ Subscribe("n2", <<"/", "a">>, "T", 1, TRUE)
  \/ \E t \in Threads : InCall(t) /\ Unsubscribe("n2", <<"/", "a">>, TRUE)
  \/ \E t \in Threads, id \in {1, 2} :
        ctx[t] = "out" /\ PublishBegin(t, id, "T", "forget", MaxPublishes)
  \/ \E t \in Threads : ThrottleLock(t)
  \/ \E t \in Threads : ThrottleRead(t)
  \/ \E t \in Threads : ThrottleUpdate(t)
  \/ \E t \in Threads, content \in Contents :
        ctx[t] = "held" /\ LookupAndDispatch(t, content, TRUE)

SpecLock == InitBuild({FALSE}) /\ [][NextLock]_vars

\* The publishers' mutexes thread t holds.
HeldBy(t) == {id \in PrivIds : pubMutex[id] = t}

\* Thread t waits for the mutex of a publisher that thread u holds.
WaitsForPublisherOf(t, u) ==
  thr[t].pc = "throttle" /\ pubMutex[thr[t].priv] = u

\* C24: no thread takes, waits for or holds the recursive mutex of the
\* shared context while it holds the mutex of a Publisher, so that no two
\* threads wait for each other on these two kinds of mutex.
C24_LockOrdering ==
  /\ \A t \in Threads : ctx[t] # "out" => HeldBy(t) = {}
  /\ \A t \in Threads, u \in Threads :
       ~ (ctx[t] = "waiting" /\ ctx[u] = "held" /\ WaitsForPublisherOf(u, t))

C24_Witness ==
  \E t \in Threads, u \in Threads :
    /\ HeldBy(t) # {} /\ ctx[t] = "out"
    /\ ctx[u] = "held"
    /\ last.op = "Drop" /\ unadvertised # [i \in PrivIds |-> <<>>]

\* C35: an Unsubscribe with a valid name whose Publishers lookup fails
\* returns false and sends no control message, but has removed the node's
\* handlers of the topic, erased the topic from the node's set and, when no
\* handler of the topic is left, removed the filter; an Unsubscribe with an
\* invalid name returns false and changes none of these.
C35_UnsubscribeNotAtomic ==
  [][last'.op = "Unsubscribe" =>
       LET n == last'.node
           fq == last'.fq
       IN  IF last'.valid
           THEN ~last'.ret =>
                  /\ last'.ctrl = <<>>
                  /\ ~ \E h \in localSubscriptions' :
                         h.nUuid = n /\ h.topic = fq
                  /\ fq \notin topicsSubscribed'[n]
                  /\ (~ \E h \in localSubscriptions' : h.topic = fq)
                       => fq \notin filters'
           ELSE /\ ~last'.ret
                /\ last'.ctrl = <<>>
                /\ UNCHANGED <<localSubscriptions, topicsSubscribed,
                               filters>>]_vars

C35_Witness ==
  /\ last.op = "Unsubscribe" /\ last.valid /\ last.hadSubs /\ ~last.ret
  /\ last.ctrl = <<>>
  /\ Publishers(msgInfo, last.fq) # {}
  /\ last.fq \notin topicsSubscribed[last.node]
  /\ last.fq \notin filters
  /\ localSubscriptions # {}

\* Steps of a Publish of thread t: rejected by the sanity check, past the
\* throttle gate, and returning because the lookup found no subscriber.
Rejected(t) ==
  thr[t].pc = "idle" /\ thr'[t] # thr[t] /\ thr'[t].why = "precheck"

PassedGate(t) == thr[t].pc = "compare" /\ thr'[t].pc = "lookup"

FoundNobody(t) ==
  thr[t].pc = "lookup" /\ thr'[t].pc = "idle" /\ thr'[t].why = "nosubs"

\* C31: the time of last emission of a handle changes exactly in the step
\* in which a Publish passes the throttle gate: a Publish rejected by the
\* sanity check leaves it, and a Publish that passes the gate sets it to the
\* time it read and keeps it set when the lookup then finds no subscriber.
C31_ThrottleStateChange ==
  /\ [][\A t \in Threads :
          /\ Rejected(t) => lastCbTimestamp' = lastCbTimestamp
          /\ PassedGate(t) => lastCbTimestamp'[thr[t].priv] = thr[t].now
          /\ FoundNobody(t) =>
               /\ lastCbTimestamp' = lastCbTimestamp
               /\ lastCbTimestamp[thr[t].priv] >= thr[t].now]_vars
  /\ [][lastCbTimestamp' # lastCbTimestamp =>
          \E t \in Threads : PassedGate(t)]_vars

C31_Witness ==
  \E t \in Threads :
    /\ thr[t].pc = "idle" /\ thr[t].why = "throttle"
    /\ items = <<>>
    /\ gateLog[thr[t].priv] # <<>>
    /\ thr[t].now > LastEmitAt(thr[t].priv)
    /\ \E u \in Threads : thr[u].why = "precheck"

\* C32: a work item (or a worker thread) is started only when, at the
\* lookup, a local handler of the topic took the message's type or was
\* generic, or the remote subscribers held the topic with that type.
C32_DispatchOnlyIfReceiver ==
  \A w \in 1..Len(items) :
    \/ \E h \in items[w].handlers :
         h.type = items[w].type \/ h.type = kGenericMessageType
    \/ items[w].hasRemote

\* A Publish starts its work while the handle lives; the handle is then
\* dropped before or after the workers run.
NextUse ==
  \/ \E type \in HandlerTypes :
        NothingPublished /\ Subscribe("n2", <<"/", "a">>, type, 1, TRUE)
  \/ NothingPublished /\ RemoteChange(TopicA, "T")
  \/ \E form \in Forms : PublishBegin("t1", 1, "T", form, MaxDispatch)
  \/ ThrottleLock("t1")
  \/ ThrottleRead("t1")
  \/ \E content \in Contents, ser \in BOOLEAN :
        LookupAndDispatch("t1", content, ser)
  \/ EarlyCallback("t1")
  \/ \E id \in LivePrivs : Quiet(id) /\ DropHandle(id)
  \/ \E w \in 1..MaxDispatch, terminates \in BOOLEAN :
        LocalStep(w, 0, terminates)
  \/ \E w \in 1..MaxDispatch, pubOk \in BOOLEAN : RemoteStep(w, pubOk)
  \/ \E w \in 1..MaxDispatch : CallbackStep(w)

SpecUse == InitPub({0}) /\ [][NextUse]_vars

\* Work item w reads the handle in this step: topicWithoutPartition in
\* SendToLocalSubscribers, shared and the topic in SendToRemoteSubscribers.
ReadsHandle(w) ==
  \/ items[w].stage = "local" /\ items'[w].stage # "local"
  \/ /\ items[w].stage = "remote" /\ items'[w].stage # "remote"
     /\ items[w].hasRemote /\ items[w].serializable

\* C34: a work item or detached worker started by a Publish reads the state
\* of the handle that dispatched it only while that handle is not destroyed.
C34_NoUseAfterDestroy ==
  [][\A w \in 1..Len(items) :
       ReadsHandle(w) => privs[items[w].priv].state = "live"]_vars

(***************************************************************************)
(* Callbacks and the two kinds of mutex: a thread publishes in the callback *)
(* form and another in the plain form, under throttling, while subscribers *)
(* come and the workers run the items.                                     *)
(***************************************************************************)
\* The lock block of CheckSubscribers ends before PrePublish returns, so the
\* early callback comes after the release of the shared mutex.
NextCb ==
  \/ \E t \in Threads : CtxWant(t)
  \/ \E t \in Threads : CtxAcquire(t)
  \/ \E t \in Threads : CtxRelease(t)
  \/ \E t \in Threads :
        InCall(t) /\ Subscribe("n2", <<"/", "a">>, "T", 1, TRUE)
  \/ \E type \in MsgTypes :
        ctx["t1"] = "out" /\ PublishBegin("t1", 1, type, "callback", MaxPublishes)
  \/ ctx["t2"] = "out" /\ PublishBegin("t2", 1, "T", "forget", MaxPublishes)
  \/ \E t \in Threads : ThrottleLock(t)
  \/ \E t \in Threads : ThrottleRead(t)
  \/ \E t \in Threads : ThrottleUpdate(t)
  \/ \E t \in Threads, content \in Contents :
        ctx[t] = "held" /\ LookupAndDispatch(t, content, TRUE)
  \/ \E t \in Threads : ctx[t] = "out" /\ EarlyCallback(t)
  \/ \E w \in 1..MaxPublishes : LocalStep(w, 0, TRUE)
  \/ \E w \in 1..MaxPublishes : RemoteStep(w, TRUE)
  \/ \E w \in 1..MaxPublishes : CallbackStep(w)

SpecCb == InitPub({2}) /\ [][NextCb]_vars

\* The thread that runs work item w: a thread of the worker pool or the
\* detached thread, never one of the calling threads.
WorkerOf(w) == "worker"

\* Thread th holds the shared context's mutex or a publisher's mutex.
HoldsAMutex(th) ==
  \/ th \in Threads /\ ctx[th] = "held"
  \/ \E id \in PrivIds : pubMutex[id] = th

\* Thread t calls the completion callback itself in this step.
CallsBack(t) == thr[t].cb = "none" /\ thr'[t].cb # "none"

\* Work item w calls a handler's callback or the completion callback in
\* this step.
WorkerCallsBack(w) ==
  \E i \in (1..Len(items'[w].ev)) \ (1..Len(items[w].ev)) :
    items'[w].ev[i][1] \in {"local", "cb"}

=============================================================================
